---- MODULE Spec2Model ----
(***************************************************************************)
(* Entity-component simulation and scene lifecycle of the puzzle           *)
(* platformer (main.ts: ECS, buildScene, loadScene, the Engine tick).      *)
(*                                                                         *)
(* Abstractions.  Positions are points of a line (the x axis) and the      *)
(* distance of two points is the absolute difference.  Time is counted in  *)
(* units of 1/120 s, so fixedTimeStep = 1/60 s is 2 units.  The physics    *)
(* engine (OIMO) is external: a world is the table of its bodies, and one  *)
(* or more world.step() calls move the dynamic body to a neighbouring      *)
(* point with any vertical velocity and any resting state.  Rotation, the  *)
(* cached matrix, meshes and drawing are left out.                         *)
(*                                                                         *)
(* The classes of src/core (Input, SceneManager, EventBus) have their own  *)
(* variables and specifications; the game loop reads the pressed edges of  *)
(* Input as inputs of a frame.                                             *)
(***************************************************************************)
EXTENDS Integers, Naturals, Sequences, FiniteSets, TLC

VARIABLES
  scenes,              \* const scenes = [...], the scene descriptors
  frameTimes,          \* the times between animation frames of this run
  nextEntity,          \* ECS.nextEntity
  transforms,          \* ECS.transforms     : entity -> [pos]
  renderables,         \* ECS.renderables    : set of entities with a drawable
  physicsBodies,       \* ECS.physicsBodies  : entity -> [w, b] body handle
  collectibles,        \* ECS.collectibles   : entity -> [isCollected, triggerRadius]
  interactables,       \* ECS.interactables  : entity -> Key or Door object
  winConditions,       \* ECS.winConditions  : entity -> [completed, triggerRadius]
  platforms,           \* ECS.platforms      : set of entities with a Platform
  players,             \* ECS.players        : tag set
  keys,                \* globalState.keys   : id -> [color, collected]
  doors,               \* globalState.doors  : id -> [color, isOpen]
  globalHeld,          \* globalState.inventory.held
  inventoryHeld,       \* inventory.held
  world,               \* let world : [id, bodies]
  worldCount,          \* number of OIMO.World objects constructed so far
  currentSceneIndex,   \* let currentSceneIndex (0-based, as in the code)
  playerEntity,        \* let playerEntity
  playerPos,           \* const playerPos (vec3 updated in place)
  physicsAccumulator,  \* let physicsAccumulator
  playerGrounded,      \* let playerGrounded
  uiMessage,           \* let uiMessage
  uiTimer,             \* let uiTimer
  victories,           \* number of alert("You Win!") calls
  origin,              \* history: entity -> what buildScene created it for
  frameLog,            \* history: the onInteract and showUIMessage calls and
                       \* the win conditions visited in the last frame, in order
  running,             \* Engine.running
  pendingFrames,       \* frame callbacks requested and not yet run
  accumulator64,       \* physicsAccumulator as an IEEE double
  lastDelta,           \* history: deltaTime of the last tick
  lastSafeDelta,       \* history: the argument of the last tick
  stepsInFrame,        \* history: world.step() calls of the last tick
  simulated,           \* history of a recorded run of frames: their number,
                       \* the exact sum k * S + r of their clamped deltas
                       \* and the world.step() calls they made
  lastEvent,           \* history: what the Engine did last
  keysDown,            \* Input.keysDown
  keysPressed,         \* Input.keysPressed
  keysReleased,        \* Input.keysReleased
  inputLog,            \* history: the keys whose last event is a keydown, the
                       \* keys with a key-down edge since the last frame, the
                       \* keys wasKeyPressed reported in the last frame, and
                       \* the last event
  current,             \* SceneManager.current
  pending,             \* SceneManager.pending
  isSwitching,         \* SceneManager.isSwitching
  switchPc,            \* where the accepted changeScene call stands
  sceneLog,            \* history: the last operation on the SceneManager and
                       \* the scene method it called, the accepted changeScene
                       \* call, and for each scene whether it is entered
  handlers,            \* EventBus.handlers : event -> handlers in insertion order
  busLog               \* history: the last call on the EventBus, the handler
                       \* calls an emit made, and the (event, handler) pairs
                       \* registered by on() and not removed since

\* the game: persistent state, ECS, world and the variables of the tick
gameVars == <<scenes, frameTimes, nextEntity, transforms, renderables,
              physicsBodies, collectibles, interactables, winConditions,
              platforms, players, keys, doors, globalHeld, inventoryHeld, world,
              worldCount, currentSceneIndex, playerEntity, playerPos,
              physicsAccumulator, playerGrounded, uiMessage, uiTimer, victories,
              origin, frameLog>>

\* the Engine object and the accumulator in double precision
engineVars == <<running, pendingFrames, accumulator64, lastDelta, lastSafeDelta,
                stepsInFrame, simulated, lastEvent>>

\* the Input class
inputVars == <<keysDown, keysPressed, keysReleased, inputLog>>

\* the EventBus
busVars == <<handlers, busLog>>

\* the SceneManager
sceneVars == <<current, pending, isSwitching, switchPc, sceneLog>>

\* the classes of src/core that the game loop does not drive in this model
coreVars == <<inputVars, sceneVars, busVars>>

vars == <<gameVars, engineVars, coreVars>>

----------------------------------------------------------------------------
(* Bounds of the model *)

\* the points of the line are 0..MaxPos
MaxPos == 3

\* the longest time between two animation frames, in 1/120 s (a 500 ms stall)
MaxElapsed == 60

\* doubles are taken within this many units of 2^-58 s of a multiple of
\* fixedTimeStep
MaxUlps == 8

\* the most frame callbacks that are requested and not yet run
MaxPending == 2

\* the frames of a recorded run
MaxFrames == 3

----------------------------------------------------------------------------
(* Program constants, in the units of the model *)

\* const fixedTimeStep = 1 / 60  (2 units of 1/120 s)
fixedTimeStep == 2

\* Math.min(deltaTime, 0.1): 0.1 s = 12 units
maxDeltaTime == 12

\* const jumpSpeed = 6
jumpSpeed == 6

\* showUIMessage(t.interact, 0.5): 0.5 s = 60 units
promptDuration == 60

\* showUIMessage(..., 1.5): 1.5 s = 180 units
resultDuration == 180

\* triggerRadius: 1.0 of collectibles, keys and the win condition
unitRadius == 1

\* triggerRadius: 2.0 of doors
doorRadius == 2

----------------------------------------------------------------------------
(* Maps (JavaScript Map / Set) *)

Put(f, k, v) == [x \in (DOMAIN f) \cup {k} |-> IF x = k THEN v ELSE f[x]]

Del(f, k) == [x \in (DOMAIN f) \ {k} |-> f[x]]

EmptyMap == [x \in {} |-> 0]

\* the keys of a Map whose keys are entities, in insertion order: entities
\* are issued in increasing order and an entry is inserted when its entity
\* is created, so insertion order is increasing order
RECURSIVE InOrder(_)
InOrder(S) ==
  IF S = {} THEN <<>>
  ELSE LET m == CHOOSE x \in S : \A y \in S : x <= y
       IN <<m>> \o InOrder(S \ {m})

Abs(x) == IF x < 0 THEN -x ELSE x

\* vec3.distance on the line
distance(a, b) == Abs(a - b)

Min(a, b) == IF a < b THEN a ELSE b

----------------------------------------------------------------------------
(* UI message *)

NoMessage == [text |-> "null", color |-> "none"]

Msg(text, color) == [text |-> text, color |-> color]

----------------------------------------------------------------------------
(* Scene descriptors (SceneConfig) on the line *)

KeyDesc(id, color, pos) == [id |-> id, color |-> color, pos |-> pos]

DoorDesc(id, color, pos) == [id |-> id, color |-> color, pos |-> pos]

SceneConfig(start, win, colls, plats, ks, ds) ==
  [playerStart |-> start, winconPos |-> win, collectibles |-> colls,
   platforms |-> plats, keys |-> ks, doors |-> ds]

\* testScene: collectibles, platforms, one red key, no door
testScene ==
  SceneConfig(0, 3, <<1>>, <<1>>, <<KeyDesc("keyRed1", "red", 2)>>, <<>>)

\* scene2: collectibles, platforms, no key, one red door
scene2 ==
  SceneConfig(0, 2, <<1>>, <<1>>, <<>>, <<DoorDesc("doorRed1", "red", 1)>>)

\* a scene with keys of two colours and a door, all within reach of point 1
hubScene ==
  SceneConfig(0, 3, <<>>, <<>>,
              <<KeyDesc("keyRed1", "red", 1), KeyDesc("keyBlue1", "blue", 2)>>,
              <<DoorDesc("doorRed1", "red", 2)>>)

\* scenes without keys and doors
plainScene == SceneConfig(0, 3, <<1, 2>>, <<1>>, <<>>, <<>>)

plainScene2 == SceneConfig(1, 0, <<2>>, <<>>, <<>>, <<>>)

\* the runs that are tried, each a scene list with the frame times of the
\* display (in 1/120 s): the program's own pair of scenes and a list that
\* loads the same descriptor twice, at 50 ms a frame with stalls; and scenes
\* without interactables at frame times below and above the fixed step
Runs ==
  { [scenes |-> <<testScene, scene2>>, frameTimes |-> {6, MaxElapsed}],
    [scenes |-> <<hubScene, hubScene>>, frameTimes |-> {6, MaxElapsed}],
    [scenes |-> <<plainScene, plainScene2>>, frameTimes |-> {1, 3, MaxElapsed}] }

----------------------------------------------------------------------------
(* ECS and scene building.  The build threads a record b holding the ECS   *)
(* tables, the persistent state and the body table of the world it builds  *)
(* into.                                                                   *)

\* createBoxBody: world.add({type: "box", size, pos, move, density})
createBoxBody(bodies, h, pos, move) ==
  Put(bodies, h, [pos |-> pos, move |-> move, velY |-> 0, onSurface |-> move])

Tag(kind, id, inst) == [kind |-> kind, id |-> id, inst |-> inst]

\* Player: transform, renderable, dynamic body, player tag
BuildPlayer(b, config, w) ==
  LET playerE == b.next IN
  [b EXCEPT !.next = playerE + 1,
            !.transforms = Put(@, playerE, [pos |-> config.playerStart]),
            !.renderables = @ \cup {playerE},
            !.bodies = createBoxBody(@, playerE, config.playerStart, TRUE),
            !.physicsBodies = Put(@, playerE, [w |-> w, b |-> playerE]),
            !.players = @ \cup {playerE},
            !.playerEntity = playerE,
            !.origin = Put(@, playerE, Tag("player", "", w))]

\* Floor: transform, renderable, static body, Platform
BuildFloor(b, w) ==
  LET floorE == b.next IN
  [b EXCEPT !.next = floorE + 1,
            !.transforms = Put(@, floorE, [pos |-> 0]),
            !.renderables = @ \cup {floorE},
            !.bodies = createBoxBody(@, floorE, 0, FALSE),
            !.physicsBodies = Put(@, floorE, [w |-> w, b |-> floorE]),
            !.platforms = @ \cup {floorE},
            !.origin = Put(@, floorE, Tag("floor", "", w))]

\* Win condition: transform, renderable, WinCondition{completed: false}
BuildWin(b, config, w) ==
  LET winE == b.next IN
  [b EXCEPT !.next = winE + 1,
            !.transforms = Put(@, winE, [pos |-> config.winconPos]),
            !.renderables = @ \cup {winE},
            !.winConditions =
               Put(@, winE, [completed |-> FALSE, triggerRadius |-> unitRadius]),
            !.origin = Put(@, winE, Tag("win", "", w))]

\* mutant: a collectible is built collected once a key has been collected
RECURSIVE BuildCollectibles_Persistent(_, _, _)
BuildCollectibles_Persistent(b, colls, w) ==
  IF colls = <<>> THEN b
  ELSE LET cE == b.next
           b1 == [b EXCEPT
                    !.next = cE + 1,
                    !.transforms = Put(@, cE, [pos |-> Head(colls)]),
                    !.renderables = @ \cup {cE},
                    !.collectibles =
                       Put(@, cE, [isCollected |->
                                     \E k \in DOMAIN b.keys : b.keys[k].collected,
                                   triggerRadius |-> unitRadius]),
                    !.origin = Put(@, cE, Tag("collectible", "", w))]
       IN BuildCollectibles_Persistent(b1, Tail(colls), w)

\* for (const pos of config.collectibles)
RECURSIVE BuildCollectibles(_, _, _)
BuildCollectibles(b, colls, w) ==
  IF colls = <<>> THEN b
  ELSE LET cE == b.next
           b1 == [b EXCEPT
                    !.next = cE + 1,
                    !.transforms = Put(@, cE, [pos |-> Head(colls)]),
                    !.renderables = @ \cup {cE},
                    !.collectibles =
                       Put(@, cE, [isCollected |-> FALSE,
                                   triggerRadius |-> unitRadius]),
                    !.origin = Put(@, cE, Tag("collectible", "", w))]
       IN BuildCollectibles(b1, Tail(colls), w)

\* mutant: the has() check is missing and every build resets the entry
RegisterKey_Always(ks, keyData) ==
  Put(ks, keyData.id, [color |-> keyData.color, collected |-> FALSE])

\* if (!globalState.keys.has(keyData.id)) globalState.keys.set(...)
RegisterKey(ks, keyData) ==
  IF keyData.id \in DOMAIN ks THEN ks
  ELSE Put(ks, keyData.id, [color |-> keyData.color, collected |-> FALSE])

\* mutant: the collected check is missing and every listed key is built
KeyOmitted_Never(keyState) == FALSE

\* if (keyState.collected) continue;
KeyOmitted(keyState) == keyState.collected

\* for (const keyData of config.keys ?? [])
RECURSIVE BuildKeys(_, _, _)
BuildKeys(b, ks, w) ==
  IF ks = <<>> THEN b
  ELSE LET keyData == Head(ks)
           b1 == [b EXCEPT !.keys = RegisterKey(@, keyData)]
           keyState == b1.keys[keyData.id]
           keyE == b1.next
           b2 == IF KeyOmitted(keyState) THEN b1
                 ELSE [b1 EXCEPT
                         !.next = keyE + 1,
                         !.transforms = Put(@, keyE, [pos |-> keyData.pos]),
                         !.renderables = @ \cup {keyE},
                         !.interactables =
                            Put(@, keyE, [kind |-> "key", id |-> keyData.id,
                                          color |-> keyState.color,
                                          triggerRadius |-> unitRadius,
                                          isOpen |-> FALSE,
                                          w |-> w, b |-> 0]),
                         !.origin = Put(@, keyE, Tag("key", keyData.id, w))]
       IN BuildKeys(b2, Tail(ks), w)

\* if (!globalState.doors.has(doorData.id)) globalState.doors.set(...)
RegisterDoor(ds, doorData) ==
  IF doorData.id \in DOMAIN ds THEN ds
  ELSE Put(ds, doorData.id, [color |-> doorData.color, isOpen |-> FALSE])

\* mutant: the isOpen check is missing and every listed door is built
DoorOmitted_Never(doorState) == FALSE

\* if (doorState.isOpen) continue;
DoorOmitted(doorState) == doorState.isOpen

\* for (const doorData of config.doors ?? [])
RECURSIVE BuildDoors(_, _, _)
BuildDoors(b, ds, w) ==
  IF ds = <<>> THEN b
  ELSE LET doorData == Head(ds)
           b1 == [b EXCEPT !.doors = RegisterDoor(@, doorData)]
           doorState == b1.doors[doorData.id]
           doorE == b1.next
           b2 == IF DoorOmitted(doorState) THEN b1
                 ELSE [b1 EXCEPT
                         !.next = doorE + 1,
                         !.transforms = Put(@, doorE, [pos |-> doorData.pos]),
                         !.renderables = @ \cup {doorE},
                         !.bodies = createBoxBody(@, doorE, doorData.pos, FALSE),
                         !.physicsBodies = Put(@, doorE, [w |-> w, b |-> doorE]),
                         !.interactables =
                            Put(@, doorE, [kind |-> "door", id |-> doorData.id,
                                           color |-> doorState.color,
                                           triggerRadius |-> doorRadius,
                                           isOpen |-> doorState.isOpen,
                                           w |-> w, b |-> doorE]),
                         !.origin = Put(@, doorE, Tag("door", doorData.id, w))]
       IN BuildDoors(b2, Tail(ds), w)

\* for (const platform of config.platforms)
RECURSIVE BuildPlatforms(_, _, _)
BuildPlatforms(b, plats, w) ==
  IF plats = <<>> THEN b
  ELSE LET pE == b.next
           b1 == [b EXCEPT
                    !.next = pE + 1,
                    !.transforms = Put(@, pE, [pos |-> Head(plats)]),
                    !.renderables = @ \cup {pE},
                    !.bodies = createBoxBody(@, pE, Head(plats), FALSE),
                    !.physicsBodies = Put(@, pE, [w |-> w, b |-> pE]),
                    !.platforms = @ \cup {pE},
                    !.origin = Put(@, pE, Tag("platform", "", w))]
       IN BuildPlatforms(b1, Tail(plats), w)

\* buildScene(gl, world, ecs, meshes, config, gridSize)
buildScene(b, config, w) ==
  LET b1 == BuildPlayer(b, config, w)
      b2 == BuildFloor(b1, w)
      b3 == BuildWin(b2, config, w)
      b4 == BuildCollectibles(b3, config.collectibles, w)
      b5 == BuildKeys(b4, config.keys, w)
      b6 == BuildDoors(b5, config.doors, w)
  IN BuildPlatforms(b6, config.platforms, w)

\* mutant: clearing the tables also restarts the id counter
ClearECS_ResetsIds(b) ==
  [b EXCEPT !.next = 1,
            !.transforms = EmptyMap,
            !.renderables = {},
            !.physicsBodies = EmptyMap,
            !.collectibles = EmptyMap,
            !.winConditions = EmptyMap,
            !.platforms = {},
            !.players = {}]

\* the tables ecs.*.clear() is called on in loadScene
ClearECS(b) ==
  [b EXCEPT !.transforms = EmptyMap,
            !.renderables = {},
            !.physicsBodies = EmptyMap,
            !.collectibles = EmptyMap,
            !.winConditions = EmptyMap,
            !.platforms = {},
            !.players = {}]

\* loadScene(sceneIndex): clear the ECS, construct a new OIMO.World, build
\* the scene into it, set playerEntity, return the new world.  sceneIndex is
\* 0-based; newId is the number of the world constructed.
loadScene(b, cfgs, sceneIndex, newId) ==
  LET b1 == ClearECS(b)
      b2 == [b1 EXCEPT !.bodies = EmptyMap, !.worldId = newId]
  IN buildScene(b2, cfgs[sceneIndex + 1], newId)

----------------------------------------------------------------------------
(* The frame callback *)

\* an entry of the frame log: the call, the entity it is made on (0 for
\* showUIMessage), the message, and inventory.held when the call is made
LogEntry(op, e, msg, held) == [op |-> op, e |-> e, msg |-> msg, held |-> held]

\* showUIMessage(msg, duration)
showUIMessage(s, msg, duration) ==
  [s EXCEPT !.uiMessage = msg, !.uiTimer = duration,
            !.frameLog = Append(@, LogEntry("showUIMessage", 0, msg,
                                            s.inventoryHeld))]

\* mutant: collect() does not delete the interactable entry
KeyCollect_KeepsEntry(s, e) ==
  LET obj == s.interactables[e]
      s1 == [s EXCEPT !.keys[obj.id].collected = TRUE,
                      !.globalHeld = obj.color]
      s2 == [s1 EXCEPT !.uiMessage = Msg("keyPickup", obj.color),
                       !.uiTimer = resultDuration,
                       !.frameLog =
                          Append(@, LogEntry("showUIMessage", 0,
                                             Msg("keyPickup", obj.color),
                                             s1.inventoryHeld))]
  IN [s2 EXCEPT !.renderables = @ \ {e}]

\* Key.collect(): set the persistent flag and globalState.inventory.held,
\* show the pickup message, delete the renderable and interactable entries
KeyCollect(s, e) ==
  LET obj == s.interactables[e]
      s1 == [s EXCEPT !.keys[obj.id].collected = TRUE,
                      !.globalHeld = obj.color]
      s2 == showUIMessage(s1, Msg("keyPickup", obj.color), resultDuration)
  IN [s2 EXCEPT !.renderables = @ \ {e},
                !.interactables = Del(@, e)]

\* mutant: a key picked up while another is held does not replace it
HeldAfterPickup_KeepFirst(held, color) == IF held = "none" THEN color ELSE held

\* inventory.held = obj.color
HeldAfterPickup(held, color) == color

\* function onInteract(obj), Key branch: obj.collect(); inventory.held =
\* obj.color; showUIMessage(keyPickup)
KeyOnInteract(s, e) ==
  LET obj == s.interactables[e]
      s1 == KeyCollect(s, e)
      s2 == [s1 EXCEPT !.inventoryHeld = HeldAfterPickup(@, obj.color)]
  IN showUIMessage(s2, Msg("keyPickup", obj.color), resultDuration)

\* mutant: open() does not remove the body from the physics world
DoorOpen_KeepsBody(s, e) ==
  LET obj == s.interactables[e]
      s1 == [s EXCEPT !.doors[obj.id].isOpen = TRUE]
      s2 == [s1 EXCEPT !.uiMessage = Msg("doorOpen", obj.color),
                       !.uiTimer = resultDuration,
                       !.frameLog =
                          Append(@, LogEntry("showUIMessage", 0,
                                             Msg("doorOpen", obj.color),
                                             s1.inventoryHeld))]
  IN [s2 EXCEPT !.renderables = @ \ {e},
                !.physicsBodies = Del(@, e),
                !.interactables = Del(@, e)]

\* mutant: open() does not delete the renderable of the door
DoorOpen_KeepsRenderable(s, e) ==
  LET obj == s.interactables[e]
      s1 == [s EXCEPT !.doors[obj.id].isOpen = TRUE]
      s2 == [s1 EXCEPT !.uiMessage = Msg("doorOpen", obj.color),
                       !.uiTimer = resultDuration,
                       !.frameLog =
                          Append(@, LogEntry("showUIMessage", 0,
                                             Msg("doorOpen", obj.color),
                                             s1.inventoryHeld))]
      s3 == IF obj.w = s2.worldId
            THEN [s2 EXCEPT !.bodies = Del(@, obj.b)]
            ELSE s2
  IN [s3 EXCEPT !.physicsBodies = Del(@, e),
                !.interactables = Del(@, e)]

\* Door.open(): set the persistent flag, show the message, remove the body
\* from the world the door was built into, delete the renderable,
\* physicsBodies and interactables entries
DoorOpen(s, e) ==
  LET obj == s.interactables[e]
      s1 == [s EXCEPT !.doors[obj.id].isOpen = TRUE]
      s2 == showUIMessage(s1, Msg("doorOpen", obj.color), resultDuration)
      s3 == IF obj.w = s2.worldId
            THEN [s2 EXCEPT !.bodies = Del(@, obj.b)]
            ELSE s2
  IN [s3 EXCEPT !.renderables = @ \ {e},
                !.physicsBodies = Del(@, e),
                !.interactables = Del(@, e)]

\* mutant: any held key opens the door, whatever its colour
DoorMayOpen_AnyKey(held, obj) == held # "none" /\ ~obj.isOpen

\* if (inventory.held === this.color && !this.isOpen)
DoorMayOpen(held, obj) == held = obj.color /\ ~obj.isOpen

\* Door.onInteract()
DoorOnInteract(s, e) ==
  LET obj == s.interactables[e] IN
  IF DoorMayOpen(s.inventoryHeld, obj) THEN DoorOpen(s, e)
  ELSE IF s.inventoryHeld # obj.color
       THEN showUIMessage(s, Msg("doorNeedKey", obj.color), resultDuration)
       ELSE s

\* obj.onInteract()
ObjOnInteract(s, e) ==
  LET s1 == [s EXCEPT !.frameLog = Append(@, LogEntry("onInteract", e, NoMessage,
                                                     s.inventoryHeld))]
  IN IF s1.interactables[e].kind = "key" THEN KeyOnInteract(s1, e)
     ELSE DoorOnInteract(s1, e)

\* dist < obj.triggerRadius
InRange(pos, objPos, radius) == distance(pos, objPos) < radius

\* mutant: the prompt is requested whatever is showing
PromptAllowed_Always(timer) == TRUE

\* if (uiTimer <= 0) showUIMessage(t.interact, 0.5)
PromptAllowed(timer) == timer <= 0

\* for (const [e, obj] of ecs.interactables): prompt and interaction
RECURSIVE InteractLoop(_, _, _)
InteractLoop(s, es, pressedE) ==
  IF es = <<>> THEN s
  ELSE LET e == Head(es)
           s3 ==
             IF e \notin DOMAIN s.interactables \/ e \notin DOMAIN s.transforms
             THEN s
             ELSE IF ~InRange(s.playerPos, s.transforms[e].pos,
                              s.interactables[e].triggerRadius)
             THEN s
             ELSE LET s1 == IF PromptAllowed(s.uiTimer)
                            THEN showUIMessage(s, Msg("interact", "none"),
                                               promptDuration)
                            ELSE s
                  IN IF pressedE THEN ObjOnInteract(s1, e) ELSE s1
       IN InteractLoop(s3, Tail(es), pressedE)

\* mutant: the win check does not depend on the collectibles
AllCollected_Any(colls) == TRUE

\* let allCollected = true; for (...) if (!coll.isCollected) ...
AllCollected(colls) == \A e \in DOMAIN colls : colls[e].isCollected

\* mutant: the win check looks at the flags the pickup pass has left
FlagsForWin_AfterPickup(before, after) == after

\* allCollected is computed before the pickup pass and read after it
FlagsForWin(before, after) == before

\* mutant: the flag follows the player, true only while in range
Pickup_WhileInRange(s) ==
  LET colls == s.collectibles IN
  [s EXCEPT !.collectibles =
     [e \in DOMAIN colls |->
        IF e \in DOMAIN s.transforms
        THEN [isCollected |-> InRange(s.playerPos, s.transforms[e].pos,
                                      colls[e].triggerRadius),
              triggerRadius |-> colls[e].triggerRadius]
        ELSE colls[e]]]

\* collectible pickup pass
Pickup(s) ==
  [s EXCEPT !.collectibles =
     [e \in DOMAIN @ |->
        IF ~@[e].isCollected /\ e \in DOMAIN s.transforms
           /\ InRange(s.playerPos, s.transforms[e].pos, @[e].triggerRadius)
        THEN [@[e] EXCEPT !.isCollected = TRUE]
        ELSE @[e]]]

\* mutant: the completed check is missing
WinSkipped_Never(win) == FALSE

\* if (win.completed) continue;
WinSkipped(win) == win.completed

\* mutant: the trigger does not set completed
WinTrigger_NotCompleted(s, e) ==
  LET s1 == [s EXCEPT !.currentSceneIndex = @ + 1]
  IN IF s1.currentSceneIndex < Len(s1.scenes)
     THEN LET s2 == loadScene([s1 EXCEPT !.worldCount = @ + 1], s1.scenes,
                              s1.currentSceneIndex, s1.worldCount + 1)
          IN [s2 EXCEPT !.physicsAccumulator = 0]
     ELSE [s1 EXCEPT !.victories = @ + 1]

\* mutant: the accumulator is not reset after loadScene
WinTrigger_KeepsAccumulator(s, e) ==
  LET s1 == [s EXCEPT !.winConditions[e].completed = TRUE,
                      !.currentSceneIndex = @ + 1]
  IN IF s1.currentSceneIndex < Len(s1.scenes)
     THEN loadScene([s1 EXCEPT !.worldCount = @ + 1], s1.scenes,
                    s1.currentSceneIndex, s1.worldCount + 1)
     ELSE [s1 EXCEPT !.victories = @ + 1]

\* the body of the win trigger: completed = true, currentSceneIndex++, then
\* load the next scene and reset the accumulator, or alert
WinTrigger(s, e) ==
  LET s1 == [s EXCEPT !.winConditions[e].completed = TRUE,
                      !.currentSceneIndex = @ + 1]
  IN IF s1.currentSceneIndex < Len(s1.scenes)
     THEN LET s2 == loadScene([s1 EXCEPT !.worldCount = @ + 1], s1.scenes,
                              s1.currentSceneIndex, s1.worldCount + 1)
          IN [s2 EXCEPT !.physicsAccumulator = 0]
     ELSE [s1 EXCEPT !.victories = @ + 1]

\* for (const [e, win] of ecs.winConditions): a Map iterator also visits
\* the entries added while it runs, so the win condition that loadScene
\* inserts is visited by the same loop; last is the entity visited last
RECURSIVE WinLoop(_, _)
WinLoop(s, last) ==
  LET rest == {e \in DOMAIN s.winConditions : e > last} IN
  IF rest = {} THEN s
  ELSE LET e == CHOOSE x \in rest : \A y \in rest : x <= y
           win == s.winConditions[e]
           visit(op) == [s EXCEPT !.frameLog =
                           Append(@, LogEntry(op, e, NoMessage, s.inventoryHeld))]
           s1 == IF WinSkipped(win) \/ e \notin DOMAIN s.transforms
                 THEN visit("winSkipped")
                 ELSE IF InRange(s.playerPos, s.transforms[e].pos,
                                 win.triggerRadius)
                 THEN WinTrigger(visit("winTriggered"), e)
                 ELSE visit("winOutOfRange")
       IN WinLoop(s1, e)

\* renderUI(dt)
renderUI(s, dt) ==
  IF s.uiMessage = NoMessage THEN s
  ELSE LET t == s.uiTimer - dt IN
       [s EXCEPT !.uiTimer = t,
                 !.uiMessage = IF t <= 0 THEN NoMessage ELSE @]

\* the number of world.step() calls of a frame:
\* physicsAccumulator += dt; while (physicsAccumulator >= fixedTimeStep) ...
StepsOf(acc, dt) == (acc + dt) \div fixedTimeStep

\* mutant: if instead of while, at most one step is subtracted in a frame
RemainderOf_SingleStep(acc, dt) ==
  IF acc + dt >= fixedTimeStep THEN acc + dt - fixedTimeStep ELSE acc + dt

\* the remainder the loop leaves in the accumulator
RemainderOf(acc, dt) == (acc + dt) % fixedTimeStep

\* mutant: the transforms are not synced
SyncTransforms_Skipped(s) == s

\* sync transforms from physics: every entity with a body and a transform
\* gets the body's position
SyncTransforms(s) ==
  [s EXCEPT !.transforms =
     [e \in DOMAIN @ |->
        IF e \in DOMAIN s.physicsBodies
           /\ s.physicsBodies[e].b \in DOMAIN s.bodies
        THEN [@[e] EXCEPT !.pos = s.bodies[s.physicsBodies[e].b].pos]
        ELSE @[e]]]

\* ground check: some platform has the player resting on its top surface
\* and the vertical velocity is not upwards (velY <= 0.1)
GroundCheck(s) ==
  /\ s.playerEntity \in DOMAIN s.transforms
  /\ s.platforms # {}
  /\ s.bodies[s.physicsBodies[s.playerEntity].b].onSurface
  /\ s.bodies[s.physicsBodies[s.playerEntity].b].velY <= 0

\* mutant: the jump does not look at playerGrounded
JumpAllowed_InAir(pressedSpace, grounded) == pressedSpace

\* if (Input.wasKeyPressed("Space") && playerGrounded) vel.y = jumpSpeed
JumpAllowed(pressedSpace, grounded) == pressedSpace /\ grounded

\* the tick from the velocity write to renderUI, for a player that has a
\* body.  out = [pos, velY, onSurface] is what the physics engine makes of
\* the player's body when at least one step runs.  The field jumped of the
\* result tells whether vel.y was assigned jumpSpeed, the field stepped
\* lists the world of each world.step() call, the field atTriggers holds
\* the transforms, the bodies and playerPos as they are when the pickup
\* pass starts.
TickBody(s, dt, pressedE, pressedSpace, out) ==
  LET h  == s.physicsBodies[s.playerEntity].b
      \* input -> velocity
      s1 == IF JumpAllowed(pressedSpace, s.playerGrounded)
            THEN [s EXCEPT !.bodies[h].velY = jumpSpeed, !.jumped = TRUE]
            ELSE s
      \* fixed-step physics
      n  == StepsOf(s1.physicsAccumulator, dt)
      s2 == [s1 EXCEPT
               !.physicsAccumulator = RemainderOf(s1.physicsAccumulator, dt),
               !.stepped = [i \in 1..n |-> s1.worldId],
               !.bodies[h] = IF n >= 1
                             THEN [@ EXCEPT !.pos = out.pos,
                                            !.velY = out.velY,
                                            !.onSurface = out.onSurface]
                             ELSE @]
      s3 == SyncTransforms(s2)
      s4 == IF s3.playerEntity \in DOMAIN s3.transforms
            THEN [s3 EXCEPT !.playerPos = s3.transforms[s3.playerEntity].pos]
            ELSE s3
      s5 == [s4 EXCEPT !.playerGrounded = GroundCheck(s4),
                       !.atTriggers =
                          [transforms |-> s4.transforms,
                           physicsBodies |-> s4.physicsBodies,
                           bodies |-> s4.bodies, playerPos |-> s4.playerPos]]
      s6 == Pickup(s5)
      allCollected == AllCollected(FlagsForWin(s5.collectibles, s6.collectibles))
      s7 == InteractLoop(s6, InOrder(DOMAIN s6.interactables), pressedE)
      s8 == IF allCollected THEN WinLoop(s7, 0) ELSE s7
  IN renderUI(s8, dt)

\* mutant: without a body the tick still adds dt to the accumulator
tick_AccumulatesWithoutBody(s, dt, pressedE, pressedSpace, out) ==
  LET s0 == [s EXCEPT !.frameLog = <<>>] IN
  IF s0.playerEntity \notin DOMAIN s0.physicsBodies
  THEN [s0 EXCEPT !.physicsAccumulator = RemainderOf(@, dt)]
  ELSE TickBody(s0, dt, pressedE, pressedSpace, out)

\* the Engine's tick callback: if (!playerPhys) return;
tick(s, dt, pressedE, pressedSpace, out) ==
  LET s0 == [s EXCEPT !.frameLog = <<>>] IN
  IF s0.playerEntity \notin DOMAIN s0.physicsBodies THEN s0
  ELSE TickBody(s0, dt, pressedE, pressedSpace, out)

\* Engine.frame: const safeDeltaTime = Math.min(deltaTime, 0.1)
safeDeltaTime(deltaTime) == Min(deltaTime, maxDeltaTime)

----------------------------------------------------------------------------
(* The accumulator in IEEE double precision.  A double near a multiple of  *)
(* fixedTimeStep is written k * S + r in units of 2^-58 s, where            *)
(* S = 4803839602528529 is the double 1/60 in these units, k counts steps  *)
(* and r is a small offset.  60 * S = 2^58 - 4, so the binade of k * S + r *)
(* is known from k (and from r at k = 15 and k = 30), and S mod 64 = 17    *)
(* gives the residue that round-to-nearest-even needs.                     *)

F64(k, r) == [k |-> k, r |-> r]

\* const fixedTimeStep = 1 / 60
fixedTimeStep64 == F64(1, 0)

\* the literal 0.1 of Math.min(deltaTime, 0.1): 6 * S + 2
maxDelta64 == F64(6, 2)

\* the spacing of the doubles around k * S + r, in units of 2^-58 s
Ulp64(k, r) ==
  IF k <= 1 THEN 1
  ELSE IF k <= 3 THEN 2
  ELSE IF k <= 7 THEN 4
  ELSE IF k <= 14 \/ (k = 15 /\ r < 1) THEN 8
  ELSE IF k <= 29 \/ (k = 30 /\ r < 2) THEN 16
  ELSE 32

\* round to nearest double, ties to the even significand
Round64(k, r) ==
  LET g   == Ulp64(k, r)
      v   == (17 * k + r) % (2 * g)
      rem == v % g
  IN IF rem = 0 THEN F64(k, r)
     ELSE IF 2 * rem < g THEN F64(k, r - rem)
     ELSE IF 2 * rem > g THEN F64(k, r + g - rem)
     ELSE IF v - rem = 0 THEN F64(k, r - rem)
     ELSE F64(k, r + rem)

\* mutant: physicsAccumulator = dt, the time left over is dropped
Add64_DropsLeftover(a, b) == Round64(b.k, b.r)

\* a + b
Add64(a, b) == Round64(a.k + b.k, a.r + b.r)

\* a - fixedTimeStep
SubStep64(a) == Round64(a.k - 1, a.r)

\* a >= fixedTimeStep
GeqStep64(a) == a.k >= 2 \/ (a.k = 1 /\ a.r >= 0)

\* Math.min(a, b)
Min64(a, b) == IF a.k < b.k \/ (a.k = b.k /\ a.r <= b.r) THEN a ELSE b

\* mutant: the delta is passed to the tick as it is
Clamp64_None(deltaTime) == deltaTime

\* const safeDeltaTime = Math.min(deltaTime, 0.1)
Clamp64(deltaTime) == Min64(deltaTime, maxDelta64)

\* while (physicsAccumulator >= fixedTimeStep) { world.step();
\* physicsAccumulator -= fixedTimeStep; }, n the steps made so far
RECURSIVE FixedStepLoop64(_, _)
FixedStepLoop64(acc, n) ==
  IF GeqStep64(acc) THEN FixedStepLoop64(SubStep64(acc), n + 1)
  ELSE [acc |-> acc, steps |-> n]

\* physicsAccumulator += dt, then the loop
Accumulate64(acc, dt) == FixedStepLoop64(Add64(acc, dt), 0)

----------------------------------------------------------------------------
(* The state machine *)

\* the value of the field atTriggers of a tick that evaluates no trigger
NoSnapshot ==
  [transforms |-> EmptyMap, physicsBodies |-> EmptyMap, bodies |-> EmptyMap,
   playerPos |-> 0]

\* the program state as one record
State ==
  [scenes |-> scenes, next |-> nextEntity, transforms |-> transforms,
   renderables |-> renderables, physicsBodies |-> physicsBodies,
   collectibles |-> collectibles, interactables |-> interactables,
   winConditions |-> winConditions, platforms |-> platforms,
   players |-> players, keys |-> keys, doors |-> doors,
   globalHeld |-> globalHeld, inventoryHeld |-> inventoryHeld,
   bodies |-> world.bodies, worldId |-> world.id, worldCount |-> worldCount,
   currentSceneIndex |-> currentSceneIndex, playerEntity |-> playerEntity,
   playerPos |-> playerPos, physicsAccumulator |-> physicsAccumulator,
   playerGrounded |-> playerGrounded, uiMessage |-> uiMessage,
   uiTimer |-> uiTimer, victories |-> victories, origin |-> origin,
   frameLog |-> frameLog, jumped |-> FALSE, stepped |-> <<>>,
   atTriggers |-> NoSnapshot]

\* the state after bootstrap() has constructed the ECS and the first world
\* and before it calls loadScene(currentSceneIndex)
Boot(cfgs) ==
  [scenes |-> cfgs, next |-> 1, transforms |-> EmptyMap,
   renderables |-> {}, physicsBodies |-> EmptyMap,
   collectibles |-> EmptyMap, interactables |-> EmptyMap,
   winConditions |-> EmptyMap, platforms |-> {},
   players |-> {}, keys |-> EmptyMap, doors |-> EmptyMap,
   globalHeld |-> "none", inventoryHeld |-> "none",
   bodies |-> EmptyMap, worldId |-> 1, worldCount |-> 1,
   currentSceneIndex |-> 0, playerEntity |-> 0,
   playerPos |-> 0, physicsAccumulator |-> 0,
   playerGrounded |-> FALSE, uiMessage |-> NoMessage,
   uiTimer |-> 0, victories |-> 0, origin |-> EmptyMap, frameLog |-> <<>>,
   jumped |-> FALSE, stepped |-> <<>>,
   atTriggers |-> NoSnapshot]

\* bootstrap(): world = loadScene(currentSceneIndex)
Bootstrap(cfgs) ==
  LET s == Boot(cfgs) IN
  loadScene([s EXCEPT !.worldCount = @ + 1], cfgs, 0, s.worldCount + 1)

Assign(s) ==
  /\ scenes' = s.scenes
  /\ nextEntity' = s.next
  /\ transforms' = s.transforms
  /\ renderables' = s.renderables
  /\ physicsBodies' = s.physicsBodies
  /\ collectibles' = s.collectibles
  /\ interactables' = s.interactables
  /\ winConditions' = s.winConditions
  /\ platforms' = s.platforms
  /\ players' = s.players
  /\ keys' = s.keys
  /\ doors' = s.doors
  /\ globalHeld' = s.globalHeld
  /\ inventoryHeld' = s.inventoryHeld
  /\ world' = [id |-> s.worldId, bodies |-> s.bodies]
  /\ worldCount' = s.worldCount
  /\ currentSceneIndex' = s.currentSceneIndex
  /\ playerEntity' = s.playerEntity
  /\ playerPos' = s.playerPos
  /\ physicsAccumulator' = s.physicsAccumulator
  /\ playerGrounded' = s.playerGrounded
  /\ uiMessage' = s.uiMessage
  /\ uiTimer' = s.uiTimer
  /\ victories' = s.victories
  /\ origin' = s.origin
  /\ frameLog' = s.frameLog

InitFrom(cfgs) ==
  LET s == Bootstrap(cfgs) IN
  /\ scenes = s.scenes
  /\ nextEntity = s.next
  /\ transforms = s.transforms
  /\ renderables = s.renderables
  /\ physicsBodies = s.physicsBodies
  /\ collectibles = s.collectibles
  /\ interactables = s.interactables
  /\ winConditions = s.winConditions
  /\ platforms = s.platforms
  /\ players = s.players
  /\ keys = s.keys
  /\ doors = s.doors
  /\ globalHeld = s.globalHeld
  /\ inventoryHeld = s.inventoryHeld
  /\ world = [id |-> s.worldId, bodies |-> s.bodies]
  /\ worldCount = s.worldCount
  /\ currentSceneIndex = s.currentSceneIndex
  /\ playerEntity = s.playerEntity
  /\ playerPos = s.playerPos
  /\ physicsAccumulator = s.physicsAccumulator
  /\ playerGrounded = s.playerGrounded
  /\ uiMessage = s.uiMessage
  /\ uiTimer = s.uiTimer
  /\ victories = s.victories
  /\ origin = s.origin
  /\ frameLog = s.frameLog

\* the key codes the game reads, and one it does not
Keys == {"Space", "KeyE", "KeyQ"}

\* an entry of inputLog.last
InputEvent(type, key, repeat) == [type |-> type, key |-> key, repeat |-> repeat]

\* the Input class as loaded: three empty sets
InputInit ==
  /\ keysDown = {}
  /\ keysPressed = {}
  /\ keysReleased = {}
  /\ inputLog = [held |-> {}, edges |-> {}, reported |-> {},
                 last |-> InputEvent("init", "", FALSE)]

\* the scenes handed to the SceneManager
SceneNames == {"menu", "level", "credits"}

\* a scene method call; NoCall when an operation calls none
SceneCall(scene, method) == [scene |-> scene, method |-> method]

NoCall == SceneCall("null", "none")

\* the accepted changeScene call: its argument, the scene that was current
\* when it was accepted, the onExit and onEnter calls it has made, and
\* whether it runs, is fulfilled or is rejected
SwitchRecord(next, prev, exits, enters, status) ==
  [next |-> next, prev |-> prev, exits |-> exits, enters |-> enters,
   status |-> status]

\* new SceneManager()
SceneManagerInit ==
  /\ current = "null"
  /\ pending = "null"
  /\ isSwitching = FALSE
  /\ switchPc = "idle"
  /\ sceneLog = [op |-> "new", accepted |-> FALSE, call |-> NoCall,
                 switch |-> SwitchRecord("null", "null", 0, 0, "none"),
                 life |-> [n \in SceneNames |-> "new"]]

\* the classes of src/core before any call is made on them
\* the event names and the handlers of the callers
EventNames == {"player:death", "my-event"}

HandlerNames == {"ui", "audio", "score"}

\* the payloads that are emitted
Payloads == {"lava", "spikes"}

\* a handler call made by emit
HandlerCall(handler, payload) == [handler |-> handler, payload |-> payload]

\* new EventBus(): handlers = new Map()
EventBusInit ==
  /\ handlers = EmptyMap
  /\ busLog = [op |-> "new", event |-> "", handler |-> "", payload |-> "",
               called |-> <<>>, threw |-> FALSE, registered |-> {}]

CoreIdle == InputInit /\ SceneManagerInit /\ EventBusInit

\* no frame has run since physicsAccumulator was set to 0
NothingSimulated == [frames |-> 0, k |-> 0, r |-> 0, steps |-> 0]

\* the Engine after bootstrap() has called engine.start(): running, with
\* one frame callback requested
EngineStarted ==
  /\ running = TRUE
  /\ pendingFrames = 1
  /\ accumulator64 = F64(0, 0)
  /\ lastDelta = F64(0, 0)
  /\ lastSafeDelta = F64(0, 0)
  /\ stepsInFrame = 0
  /\ simulated = NothingSimulated
  /\ lastEvent = "start"

Init ==
  /\ \E run \in Runs : InitFrom(run.scenes) /\ frameTimes = run.frameTimes
  /\ EngineStarted
  /\ CoreIdle

\* the points of the line
Positions == 0..MaxPos

\* the vertical states a physics step can leave the player's body in:
\* resting on a surface, rising, falling
Vertical ==
  { [velY |-> 0, onSurface |-> TRUE], [velY |-> jumpSpeed, onSurface |-> FALSE],
    [velY |-> 0, onSurface |-> FALSE] }

\* what n physics steps can make of the player's body: nothing when no
\* step runs, else a neighbouring point and any vertical state
Outcomes(body, n) ==
  IF n = 0
  THEN {[pos |-> body.pos, velY |-> body.velY, onSurface |-> body.onSurface]}
  ELSE {[pos |-> p, velY |-> v.velY, onSurface |-> v.onSurface] :
          p \in {q \in Positions : distance(q, body.pos) <= 1},
          v \in Vertical}

\* the outcome handed to a tick that has no player body to step
NoOutcome == [pos |-> 0, velY |-> 0, onSurface |-> FALSE]

\* one animation frame: Engine.frame calls the tick with the clamped delta
Frame ==
  \E elapsed \in frameTimes, pressedE \in BOOLEAN, pressedSpace \in BOOLEAN :
    LET dt == safeDeltaTime(elapsed)
        h  == physicsBodies[playerEntity].b
        n  == StepsOf(physicsAccumulator, dt)
    IN \E out \in IF playerEntity \in DOMAIN physicsBodies
                  THEN Outcomes(world.bodies[h], n)
                  ELSE {NoOutcome} :
         /\ running
         /\ Assign(tick(State, dt, pressedE, pressedSpace, out))
         /\ UNCHANGED frameTimes
         /\ UNCHANGED engineVars
         /\ UNCHANGED coreVars

Next == Frame

Spec == Init /\ [][Next]_vars

----------------------------------------------------------------------------
(* The game started on a scene list whose first descriptor lists the same  *)
(* key id twice.                                                           *)

\* a scene with two key descriptors of one id
dupScene ==
  SceneConfig(0, 3, <<>>, <<>>,
              <<KeyDesc("keyRed1", "red", 1), KeyDesc("keyRed1", "blue", 2)>>,
              <<>>)

DuplicateIdInit ==
  /\ InitFrom(<<dupScene, scene2>>)
  /\ frameTimes = {MaxElapsed}
  /\ EngineStarted
  /\ CoreIdle

DuplicateIdSpec == DuplicateIdInit /\ [][Next]_vars

----------------------------------------------------------------------------
(* The game started on a scene with one red key and two red doors.         *)

twoDoorScene ==
  SceneConfig(0, 3, <<>>, <<>>,
              <<KeyDesc("keyRed1", "red", 1)>>,
              <<DoorDesc("doorRed1", "red", 1), DoorDesc("doorRed2", "red", 2)>>)

TwoDoorInit ==
  /\ InitFrom(<<twoDoorScene, scene2>>)
  /\ frameTimes = {MaxElapsed}
  /\ EngineStarted
  /\ CoreIdle

TwoDoorSpec == TwoDoorInit /\ [][Next]_vars

----------------------------------------------------------------------------
(* A scene list whose scenes have their win conditions at the same point   *)

\* a scene with a collectible and the win condition where plainScene has it
sameWinScene == SceneConfig(0, 3, <<1>>, <<1>>, <<>>, <<>>)

SameWinInit ==
  /\ InitFrom(<<plainScene, sameWinScene, plainScene2>>)
  /\ frameTimes = {1, 3, MaxElapsed}
  /\ EngineStarted
  /\ CoreIdle

SameWinSpec == SameWinInit /\ [][Next]_vars

----------------------------------------------------------------------------
(* A scene with a collectible at the point of its win condition            *)

winSpotScene == SceneConfig(0, 3, <<1, 3>>, <<1>>, <<>>, <<>>)

WinSpotInit ==
  /\ InitFrom(<<winSpotScene, plainScene2>>)
  /\ frameTimes = {1, 3, MaxElapsed}
  /\ EngineStarted
  /\ CoreIdle

WinSpotSpec == WinSpotInit /\ [][Next]_vars

----------------------------------------------------------------------------
(* The frame callback when the player has no physics body.  buildScene     *)
(* gives every player a body and nothing in the program deletes it, so the *)
(* guard at the top of the tick is written for an ECS that was changed      *)
(* from outside the tick; LosePlayerBody is that change.                   *)

\* the player's entry is missing: ecs.physicsBodies.get(playerEntity) is
\* undefined from now on
LosePlayerBody ==
  /\ running
  /\ playerEntity \in DOMAIN physicsBodies
  /\ physicsBodies' = Del(physicsBodies, playerEntity)
  /\ frameLog' = <<LogEntry("bodyLost", playerEntity, NoMessage, inventoryHeld)>>
  /\ UNCHANGED <<scenes, frameTimes, nextEntity, transforms, renderables,
                 collectibles, interactables, winConditions, platforms,
                 players, keys, doors, globalHeld, inventoryHeld, world,
                 worldCount, currentSceneIndex, playerEntity, playerPos,
                 physicsAccumulator, playerGrounded, uiMessage, uiTimer,
                 victories, origin>>
  /\ UNCHANGED engineVars
  /\ UNCHANGED coreVars

NoBodyInit ==
  /\ InitFrom(<<testScene, scene2>>)
  /\ frameTimes = {3, MaxElapsed}
  /\ EngineStarted
  /\ CoreIdle

NoBodyNext == Frame \/ LosePlayerBody

NoBodySpec == NoBodyInit /\ [][NoBodyNext]_vars

----------------------------------------------------------------------------
(* The Engine on its own: start(), stop() and the frame callback, with a   *)
(* tick that runs the fixed-step loop in double precision.  The time       *)
(* between two callbacks is an input; two callbacks of one animation frame *)
(* are given the same time, so the second computes a delta of 0.           *)

\* the doubles a callback can compute as deltaTime: within MaxUlps units of
\* a multiple of fixedTimeStep up to 100 ms, and a stall of 500 ms
Deltas ==
  {d \in {F64(k, r) : k \in 0..6, r \in (-MaxUlps)..MaxUlps} :
     /\ Round64(d.k, d.r) = d
     /\ d.k = 0 => d.r >= 0}
    \cup {F64(30, 2)}

\* new Engine(tick)
EngineInit ==
  /\ InitFrom(<<testScene, scene2>>)
  /\ frameTimes = {MaxElapsed}
  /\ running = FALSE
  /\ pendingFrames = 0
  /\ accumulator64 = F64(0, 0)
  /\ lastDelta = F64(0, 0)
  /\ lastSafeDelta = F64(0, 0)
  /\ stepsInFrame = 0
  /\ simulated = NothingSimulated
  /\ lastEvent = "new"
  /\ CoreIdle

\* start(): if (this.running) return; running = true; lastTime = now;
\* requestAnimationFrame(this.frame)
EngineStart ==
  /\ ~running
  /\ pendingFrames < MaxPending
  /\ running' = TRUE
  /\ pendingFrames' = pendingFrames + 1
  /\ lastEvent' = "start"
  /\ UNCHANGED <<accumulator64, lastDelta, lastSafeDelta, stepsInFrame,
                 simulated>>
  /\ UNCHANGED gameVars
  /\ UNCHANGED coreVars

\* stop(): running = false
EngineStop ==
  /\ running' = FALSE
  /\ lastEvent' = "stop"
  /\ UNCHANGED <<pendingFrames, accumulator64, lastDelta, lastSafeDelta,
                 stepsInFrame, simulated>>
  /\ UNCHANGED gameVars
  /\ UNCHANGED coreVars

\* mutant: the callback does not look at running
FrameReturns_Never(isRunning) == FALSE

\* if (!this.running) return;
FrameReturns(isRunning) == ~isRunning

\* frame(time): if (!this.running) return; otherwise compute the delta,
\* clamp it, call the tick and request the next callback
EngineFrame ==
  /\ pendingFrames > 0
  /\ \E deltaTime \in Deltas :
       IF FrameReturns(running)
       THEN /\ pendingFrames' = pendingFrames - 1
            /\ lastEvent' = "returned"
            /\ UNCHANGED <<running, accumulator64, lastDelta, lastSafeDelta,
                           stepsInFrame>>
       ELSE LET safe == Clamp64(deltaTime)
                res  == Accumulate64(accumulator64, safe)
            IN /\ res.acc.r \in (-MaxUlps)..MaxUlps
               /\ accumulator64' = res.acc
               /\ stepsInFrame' = res.steps
               /\ lastDelta' = deltaTime
               /\ lastSafeDelta' = safe
               /\ lastEvent' = "tick"
               /\ UNCHANGED <<running, pendingFrames>>
  /\ UNCHANGED simulated
  /\ UNCHANGED gameVars
  /\ UNCHANGED coreVars

EngineNext == EngineStart \/ EngineStop \/ EngineFrame

EngineSpec == EngineInit /\ [][EngineNext]_vars

----------------------------------------------------------------------------
(* A recorded run: the frames that follow physicsAccumulator = 0 (the      *)
(* start of the game or a scene transition), up to MaxFrames of them, with *)
(* the sum of the clamped deltas and the number of physics steps kept      *)
(* beside the program's accumulator.  The sum is exact: k and r are added  *)
(* as integers, without rounding.                                          *)

\* the deltas of the recorded frames, each (time - lastTime) / 1000 for
\* timestamps in ms: a second callback of one animation frame (0), 60 Hz
\* (16.666666666666664 and 16.666666666666668 ms), 30 Hz, 50 ms,
\* 83.33333333333333 ms, 100 ms and a stall of 500 ms
SessionDeltas ==
  { F64(0, 0), F64(1, -1), F64(1, 0), F64(2, 0), F64(3, 1), F64(5, -1),
    F64(6, 2), F64(30, 2) }

\* one more frame in the record: its clamped delta and its steps
Recorded(sim, safe, steps) ==
  [frames |-> sim.frames + 1, k |-> sim.k + safe.k, r |-> sim.r + safe.r,
   steps |-> sim.steps + steps]

\* bootstrap() has started the Engine and no frame has run
AccumulatorInit ==
  /\ InitFrom(<<testScene, scene2>>)
  /\ frameTimes = {MaxElapsed}
  /\ EngineStarted
  /\ CoreIdle

\* frame(time) of a recorded run: as EngineFrame, and a tick is recorded
AccumulatorFrame ==
  /\ pendingFrames > 0
  /\ simulated.frames < MaxFrames
  /\ \E deltaTime \in SessionDeltas :
       IF FrameReturns(running)
       THEN /\ pendingFrames' = pendingFrames - 1
            /\ lastEvent' = "returned"
            /\ UNCHANGED <<running, accumulator64, lastDelta, lastSafeDelta,
                           stepsInFrame, simulated>>
       ELSE LET safe == Clamp64(deltaTime)
                res  == Accumulate64(accumulator64, safe)
            IN /\ accumulator64' = res.acc
               /\ stepsInFrame' = res.steps
               /\ simulated' = Recorded(simulated, safe, res.steps)
               /\ lastDelta' = deltaTime
               /\ lastSafeDelta' = safe
               /\ lastEvent' = "tick"
               /\ UNCHANGED <<running, pendingFrames>>
  /\ UNCHANGED gameVars
  /\ UNCHANGED coreVars

AccumulatorNext == EngineStart \/ EngineStop \/ AccumulatorFrame

AccumulatorSpec == AccumulatorInit /\ [][AccumulatorNext]_vars

----------------------------------------------------------------------------
(* The Input class: the keydown and keyup listeners that Input.init()      *)
(* installs, and the frame callback as far as it uses the class: the tick  *)
(* queries wasKeyPressed and ends with Input.update().  Events are handled *)
(* between frame callbacks.  inputLog is kept from the events alone: a     *)
(* key-down edge is a keydown event for a key whose last event is not a    *)
(* keydown.                                                                *)

InputSpecInit ==
  /\ InitFrom(<<testScene, scene2>>)
  /\ frameTimes = {MaxElapsed}
  /\ EngineStarted
  /\ CoreIdle

\* mutant: every keydown event, auto-repeat included, is an edge
PressedOnKeyDown_Always(down, pressed, code) == pressed \cup {code}

\* if (!this.keysDown.has(e.code)) this.keysPressed.add(e.code)
PressedOnKeyDown(down, pressed, code) ==
  IF code \notin down THEN pressed \cup {code} ELSE pressed

\* the keydown listener
KeyDown ==
  \E code \in Keys :
    /\ keysPressed' = PressedOnKeyDown(keysDown, keysPressed, code)
    /\ keysDown' = keysDown \cup {code}
    /\ inputLog' =
         [inputLog EXCEPT
            !.held = @ \cup {code},
            !.edges = IF code \in inputLog.held THEN @ ELSE @ \cup {code},
            !.last = InputEvent("keydown", code, code \in inputLog.held)]
    /\ UNCHANGED keysReleased
    /\ UNCHANGED <<gameVars, engineVars, sceneVars, busVars>>

\* the keyup listener
KeyUp ==
  \E code \in Keys :
    /\ keysDown' = keysDown \ {code}
    /\ keysReleased' = keysReleased \cup {code}
    /\ inputLog' = [inputLog EXCEPT !.held = @ \ {code},
                                    !.last = InputEvent("keyup", code, FALSE)]
    /\ UNCHANGED keysPressed
    /\ UNCHANGED <<gameVars, engineVars, sceneVars, busVars>>

\* Input.wasKeyPressed(key)
wasKeyPressed(pressed, key) == key \in pressed

\* a frame callback: the tick queries wasKeyPressed, then Input.update()
\* clears keysPressed and keysReleased
InputFrame ==
  /\ running
  /\ inputLog' = [inputLog EXCEPT
                    !.reported = {k \in Keys : wasKeyPressed(keysPressed, k)},
                    !.edges = {},
                    !.last = InputEvent("frame", "", FALSE)]
  /\ keysPressed' = {}
  /\ keysReleased' = {}
  /\ UNCHANGED keysDown
  /\ UNCHANGED <<gameVars, engineVars, sceneVars, busVars>>

InputNext == KeyDown \/ KeyUp \/ InputFrame

InputSpec == InputSpecInit /\ [][InputNext]_vars

----------------------------------------------------------------------------
(* The SceneManager.  changeScene is an async function: it runs up to the  *)
(* await of onEnter() in the caller's turn and the rest when the awaited   *)
(* value settles.  The scene methods are code of the caller: onExit and    *)
(* onEnter may throw, the promise of onEnter may reject, and while one of  *)
(* them runs it may call back into the manager, so changeScene, update and *)
(* render can be called wherever the accepted call stands.  switchPc is    *)
(* "idle", "inExit" (onExit is running), "inEnter" (onEnter is running) or *)
(* "awaiting" (the value of onEnter has not settled).                      *)

SceneManagerSpecInit ==
  /\ InitFrom(<<testScene, scene2>>)
  /\ frameTimes = {MaxElapsed}
  /\ EngineStarted
  /\ CoreIdle

\* mutant: the re-entrancy check is missing from update() and render()
SkippedWhileSwitching_Never(switching) == FALSE

\* if (this.isSwitching) return;
SkippedWhileSwitching(switching) == switching

\* the scene a step of the log marks by a call of onEnter or onExit
LifeAfter(life, call) ==
  IF call.method = "onEnter" THEN [life EXCEPT ![call.scene] = "entered"]
  ELSE IF call.method = "onExit" THEN [life EXCEPT ![call.scene] = "exited"]
  ELSE life

\* mutant: the previous scene is replaced without a call of onExit
HasCurrent_Never(cur) == FALSE

\* if (this.current) this.current.onExit()
HasCurrent(cur) == cur # "null"

\* changeScene(next) up to the first scene method it calls: returns at once
\* while switching; otherwise sets isSwitching and pending, and calls
\* onExit on the current scene or, without one, makes next current and
\* calls its onEnter
ChangeScene ==
  \E next \in SceneNames :
    IF isSwitching
    THEN /\ sceneLog' = [sceneLog EXCEPT !.op = "changeScene",
                                         !.accepted = FALSE, !.call = NoCall]
         /\ UNCHANGED <<current, pending, isSwitching, switchPc>>
         /\ UNCHANGED <<gameVars, engineVars, inputVars, busVars>>
    ELSE LET exits == HasCurrent(current)
             call  == IF exits THEN SceneCall(current, "onExit")
                      ELSE SceneCall(next, "onEnter")
         IN /\ isSwitching' = TRUE
            /\ IF exits
               THEN /\ pending' = next
                    /\ switchPc' = "inExit"
                    /\ UNCHANGED current
               ELSE /\ current' = next
                    /\ pending' = "null"
                    /\ switchPc' = "inEnter"
            /\ sceneLog' =
                 [op |-> "changeScene", accepted |-> TRUE, call |-> call,
                  switch |-> SwitchRecord(next, current,
                                          IF exits THEN 1 ELSE 0,
                                          IF exits THEN 0 ELSE 1,
                                          "running"),
                  life |-> LifeAfter(sceneLog.life, call)]
            /\ UNCHANGED <<gameVars, engineVars, inputVars, busVars>>

\* this.current.onExit() returns or throws.  After a return: current =
\* pending; pending = null; this.current.onEnter() is called.  A throw
\* rejects the promise of changeScene and nothing else is executed.
ExitReturns ==
  /\ switchPc = "inExit"
  /\ \E outcome \in {"returns", "throws"} :
       IF outcome = "returns"
       THEN /\ current' = pending
            /\ pending' = "null"
            /\ switchPc' = "inEnter"
            /\ sceneLog' =
                 [sceneLog EXCEPT
                    !.op = "onExit returned", !.accepted = FALSE,
                    !.call = SceneCall(pending, "onEnter"),
                    !.switch.enters = @ + 1,
                    !.life = LifeAfter(@, SceneCall(pending, "onEnter"))]
            /\ UNCHANGED isSwitching
       ELSE /\ switchPc' = "idle"
            /\ sceneLog' = [sceneLog EXCEPT !.op = "onExit threw",
                                            !.accepted = FALSE,
                                            !.call = NoCall,
                                            !.switch.status = "rejected"]
            /\ UNCHANGED <<current, pending, isSwitching>>
  /\ UNCHANGED <<gameVars, engineVars, inputVars, busVars>>

\* this.current.onEnter() returns a value to await, or throws
EnterReturns ==
  /\ switchPc = "inEnter"
  /\ \E outcome \in {"returns", "throws"} :
       /\ switchPc' = IF outcome = "returns" THEN "awaiting" ELSE "idle"
       /\ sceneLog' = [sceneLog EXCEPT
                         !.op = IF outcome = "returns" THEN "onEnter returned"
                                ELSE "onEnter threw",
                         !.accepted = FALSE,
                         !.call = NoCall,
                         !.switch.status = IF outcome = "returns" THEN @
                                           ELSE "rejected"]
  /\ UNCHANGED <<current, pending, isSwitching>>
  /\ UNCHANGED <<gameVars, engineVars, inputVars, busVars>>

\* the awaited value settles: this.isSwitching = false after a fulfilment,
\* nothing after a rejection
EnterSettles ==
  /\ switchPc = "awaiting"
  /\ \E outcome \in {"fulfilled", "rejected"} :
       /\ isSwitching' = IF outcome = "fulfilled" THEN FALSE ELSE isSwitching
       /\ sceneLog' = [sceneLog EXCEPT !.op = "onEnter settled",
                                       !.accepted = FALSE,
                                       !.call = NoCall,
                                       !.switch.status = outcome]
  /\ switchPc' = "idle"
  /\ UNCHANGED <<current, pending>>
  /\ UNCHANGED <<gameVars, engineVars, inputVars, busVars>>

\* if (this.isSwitching) return; this.current?.method(): the call made
Forwarded(method) ==
  IF SkippedWhileSwitching(isSwitching) \/ current = "null" THEN NoCall
  ELSE SceneCall(current, method)

\* update(dt)
SceneUpdate ==
  /\ sceneLog' = [sceneLog EXCEPT !.op = "update", !.accepted = FALSE,
                                  !.call = Forwarded("update")]
  /\ UNCHANGED <<current, pending, isSwitching, switchPc>>
  /\ UNCHANGED <<gameVars, engineVars, inputVars, busVars>>

\* render()
SceneRender ==
  /\ sceneLog' = [sceneLog EXCEPT !.op = "render", !.accepted = FALSE,
                                  !.call = Forwarded("render")]
  /\ UNCHANGED <<current, pending, isSwitching, switchPc>>
  /\ UNCHANGED <<gameVars, engineVars, inputVars, busVars>>

\* getCurrentScene()
getCurrentScene == current

SceneManagerNext ==
  \/ ChangeScene
  \/ ExitReturns
  \/ EnterReturns
  \/ EnterSettles
  \/ SceneUpdate
  \/ SceneRender

SceneManagerSpec == SceneManagerSpecInit /\ [][SceneManagerNext]_vars

\* The scheduling the program gives the SceneManager: a scene method that
\* was called returns or throws, the value onEnter returned settles, and
\* the frame loop goes on calling update() and render()
SceneManagerFairness ==
  /\ WF_vars(ExitReturns)
  /\ WF_vars(EnterReturns)
  /\ WF_vars(EnterSettles)
  /\ WF_vars(SceneUpdate)
  /\ WF_vars(SceneRender)

SceneManagerLiveSpec == SceneManagerSpec /\ SceneManagerFairness

----------------------------------------------------------------------------
(* The EventBus.  A Set of handlers is the sequence of its elements in     *)
(* insertion order, which is the order emit calls them in.  A handler is   *)
(* code of the caller: it returns or it throws, and a throw leaves emit at *)
(* once.  Handlers do not call the bus while emit runs.                    *)

EventBusSpecInit ==
  /\ InitFrom(<<testScene, scene2>>)
  /\ frameTimes = {MaxElapsed}
  /\ EngineStarted
  /\ CoreIdle

\* mutant: the handlers of an event are kept in a list, duplicates included
SetAdd_Duplicates(set, handler) == Append(set, handler)

\* Set.add: a handler that is in the set is not added again
SetAdd(set, handler) ==
  IF \E i \in 1..Len(set) : set[i] = handler THEN set
  ELSE Append(set, handler)

\* Set.delete
SetDelete(set, handler) == SelectSeq(set, LAMBDA h : h # handler)

\* on(event, handler)
On ==
  \E event \in EventNames, handler \in HandlerNames :
    LET set == IF event \in DOMAIN handlers THEN handlers[event] ELSE <<>>
    IN /\ handlers' = Put(handlers, event, SetAdd(set, handler))
       /\ busLog' = [busLog EXCEPT
                       !.op = "on", !.event = event, !.handler = handler,
                       !.payload = "", !.called = <<>>, !.threw = FALSE,
                       !.registered = @ \cup {<<event, handler>>}]
       /\ UNCHANGED <<gameVars, engineVars, inputVars, sceneVars>>

\* off(event, handler): delete the handler, and the event with its last one
Off ==
  \E event \in EventNames, handler \in HandlerNames :
    /\ handlers' =
         IF event \notin DOMAIN handlers THEN handlers
         ELSE LET set == SetDelete(handlers[event], handler)
              IN IF Len(set) = 0 THEN Del(handlers, event)
                 ELSE Put(handlers, event, set)
    /\ busLog' = [busLog EXCEPT
                    !.op = "off", !.event = event, !.handler = handler,
                    !.payload = "", !.called = <<>>, !.threw = FALSE,
                    !.registered = @ \ {<<event, handler>>}]
    /\ UNCHANGED <<gameVars, engineVars, inputVars, sceneVars>>

\* for (const handler of set) handler(payload): the calls made when the
\* handler at position throwsAt throws (0: none throws)
CallsOf(set, payload, throwsAt) ==
  [i \in 1..(IF throwsAt = 0 THEN Len(set) ELSE throwsAt) |->
     HandlerCall(set[i], payload)]

\* emit(event, payload)
Emit ==
  \E event \in EventNames, payload \in Payloads :
    LET set == IF event \in DOMAIN handlers THEN handlers[event] ELSE <<>>
    IN \E throwsAt \in 0..Len(set) :
         /\ busLog' = [busLog EXCEPT
                         !.op = "emit", !.event = event, !.handler = "",
                         !.payload = payload,
                         !.called = CallsOf(set, payload, throwsAt),
                         !.threw = throwsAt # 0]
         /\ UNCHANGED handlers
         /\ UNCHANGED <<gameVars, engineVars, inputVars, sceneVars>>

\* clear()
Clear ==
  /\ handlers' = EmptyMap
  /\ busLog' = [busLog EXCEPT
                  !.op = "clear", !.event = "", !.handler = "",
                  !.payload = "", !.called = <<>>, !.threw = FALSE,
                  !.registered = {}]
  /\ UNCHANGED <<gameVars, engineVars, inputVars, sceneVars>>

EventBusNext == On \/ Off \/ Emit \/ Clear

EventBusSpec == EventBusSpecInit /\ [][EventBusNext]_vars

----------------------------------------------------------------------------
(* Vocabulary of the properties *)

\* the descriptor the current world was built from: world 1 is constructed
\* by bootstrap and replaced at once, world n + 2 is built for scenes[n]
CurrentConfig == scenes[world.id - 1]

Range(seq) == {seq[i] : i \in 1..Len(seq)}

\* the entities created by the last step
Created == (DOMAIN origin') \ (DOMAIN origin)

\* the entities the build into the current world created for an object
BuiltFor(kind, id) == {e \in DOMAIN origin : origin[e] = Tag(kind, id, world.id)}

\* the entities that have an entry in some component table
Live ==
  (DOMAIN transforms) \cup renderables \cup (DOMAIN physicsBodies)
    \cup (DOMAIN collectibles) \cup (DOMAIN interactables)
    \cup (DOMAIN winConditions) \cup platforms \cup players

----------------------------------------------------------------------------
(* Properties *)

\* C1: a build never creates an entity for a key whose persistent entry is
\* collected: every entity a step creates for a key id (and so every
\* transform, renderable and interactable entry it adds for it) belongs to a
\* key that is not collected, however many times the scene is built.
C1_CollectedKeyNeverBuilt ==
  [][\A e \in Created :
       origin'[e].kind = "key" => ~keys'[origin'[e].id].collected]_vars

\* a later scene that lists a collected key has been built without it
C1_Witness ==
  /\ world.id >= 3
  /\ \E kd \in Range(CurrentConfig.keys) :
       /\ keys[kd.id].collected
       /\ BuiltFor("key", kd.id) = {}
       /\ \A e \in Live : origin[e].inst = world.id => origin[e].kind # "key"

\* in every state no renderable, no physicsBodies entry and no body of the
\* current world belongs to a door whose persistent entry is open
C2_NoOpenDoorBody ==
  /\ \A e \in renderables \cup (DOMAIN physicsBodies) :
       origin[e].kind = "door" => ~doors[origin[e].id].isOpen
  /\ \A h \in DOMAIN world.bodies :
       origin[h].kind = "door" => ~doors[origin[h].id].isOpen

\* C2: a build never creates an entity (renderable, physics body) for a door
\* whose persistent entry is open, and no physicsBodies entry and no body of
\* the world refers to an open door.
C2_OpenDoorNeverBuilt ==
  /\ []C2_NoOpenDoorBody
  /\ [][\A e \in Created :
          origin'[e].kind = "door" => ~doors'[origin'[e].id].isOpen]_vars

\* a later scene that lists an open door has been built without it
C2_Witness ==
  /\ world.id >= 3
  /\ \E dd \in Range(CurrentConfig.doors) :
       /\ doors[dd.id].isOpen
       /\ BuiltFor("door", dd.id) = {}
       /\ \A h \in DOMAIN world.bodies : origin[h].kind # "door"

\* the onInteract calls the last step made on doors: positions in the log
DoorCalls ==
  {i \in 1..Len(frameLog') :
     /\ frameLog'[i].op = "onInteract"
     /\ origin'[frameLog'[i].e].kind = "door"}

\* a denied onInteract call on a door: the door stays closed, the inventory
\* is as it was when the call was made, the "need key" message of the door's
\* colour is requested by the call, and (unless the scene is rebuilt in the
\* same frame) the door keeps its renderable, body and interactable entries
DeniedCall(i) ==
  LET e == frameLog'[i].e
      d == origin'[e].id
  IN /\ ~doors'[d].isOpen
     /\ inventoryHeld' = frameLog'[i].held
     /\ globalHeld' = frameLog'[i].held
     /\ i < Len(frameLog')
     /\ frameLog'[i + 1] = LogEntry("showUIMessage", 0,
                                    Msg("doorNeedKey", doors'[d].color),
                                    frameLog'[i].held)
     /\ e \in DOMAIN interactables'
     /\ world'.id = world.id =>
          /\ e \in renderables'
          /\ e \in DOMAIN physicsBodies'
          /\ physicsBodies'[e].b \in DOMAIN world'.bodies

\* C3: a closed door is opened by a step only through an onInteract call on
\* it made while the held key has the door's colour; an onInteract call made
\* with another colour or with no key leaves isOpen false, leaves the door
\* its renderable, physics body and interactable entries and the inventory
\* unchanged, and requests the "need key of colour X" message.
C3_DoorOpensOnlyWithMatchingKey ==
  [][/\ \A d \in DOMAIN doors' :
          doors'[d].isOpen /\ (d \in DOMAIN doors => ~doors[d].isOpen) =>
            \E i \in DoorCalls :
              /\ origin'[frameLog'[i].e].id = d
              /\ frameLog'[i].held = doors'[d].color
     /\ \A i \in DoorCalls :
          frameLog'[i].held # doors'[origin'[frameLog'[i].e].id].color
            => DeniedCall(i)]_vars

\* interact was pressed in range of a closed door while no key was held:
\* the call was denied and the door is still closed and in place
C3_Witness ==
  \E i \in 1..Len(frameLog) :
    /\ frameLog[i].op = "onInteract"
    /\ origin[frameLog[i].e].kind = "door"
    /\ frameLog[i].held = "none"
    /\ ~doors[origin[frameLog[i].e].id].isOpen
    /\ frameLog[i].e \in renderables
    /\ uiMessage = Msg("doorNeedKey", doors[origin[frameLog[i].e].id].color)

\* the onInteract calls the last step made on keys: positions in the log
KeyCalls ==
  {i \in 1..Len(frameLog') :
     /\ frameLog'[i].op = "onInteract"
     /\ origin'[frameLog'[i].e].kind = "key"}

\* the single inventory slot holds nothing or one key colour, and the two
\* inventory objects of the program agree
C4_SingleSlot ==
  /\ inventoryHeld \in {"none", "red", "blue"}
  /\ globalHeld = inventoryHeld

\* C4: the inventory holds at most one key colour: a step that picks keys up
\* leaves it holding exactly the colour of the key picked up last, whatever
\* was held before (overwrite, no stacking), and a step without a pickup
\* leaves it unchanged.
C4_PickupOverwritesHeldKey ==
  /\ []C4_SingleSlot
  /\ [][IF KeyCalls = {} THEN inventoryHeld' = inventoryHeld
        ELSE LET last == CHOOSE i \in KeyCalls : \A j \in KeyCalls : j <= i
             IN inventoryHeld' = keys'[origin'[frameLog'[last].e].id].color]_vars

\* a key of one colour was picked up while a key of another colour was held
C4_Witness ==
  \E i \in 1..Len(frameLog) :
    /\ frameLog[i].op = "onInteract"
    /\ origin[frameLog[i].e].kind = "key"
    /\ frameLog[i].held # "none"
    /\ frameLog[i].held # keys[origin[frameLog[i].e].id].color
    /\ inventoryHeld = keys[origin[frameLog[i].e].id].color

\* C5: the win condition triggers at most once per scene instance: from a
\* state whose win condition is completed, no frame (whatever the position
\* of the player and the input) increments the scene index, signals
\* victory or loads a scene.
C5_CompletedWinNeverRetriggers ==
  [][(\E e \in DOMAIN winConditions : winConditions[e].completed) =>
       /\ currentSceneIndex' = currentSceneIndex
       /\ victories' = victories
       /\ world' .id = world.id
       /\ winConditions' = winConditions]_vars

\* a frame evaluated the win condition after it was completed, with all
\* collectibles collected and the player inside the trigger radius
C5_Witness ==
  \E i \in 1..Len(frameLog) :
    /\ frameLog[i].op = "winSkipped"
    /\ winConditions[frameLog[i].e].completed
    /\ InRange(playerPos, transforms[frameLog[i].e].pos,
               winConditions[frameLog[i].e].triggerRadius)

C7_NoLeakedEntities == \A e \in Live : origin[e].inst = world.id

\* the frame made no onInteract call
NoInteraction ==
  \A i \in 1..Len(frameLog') : frameLog'[i].op # "onInteract"

\* every persistent entry is kept, with its colour, and a flag that is true
\* stays true
PersistentMonotonic ==
  /\ \A k \in DOMAIN keys :
       /\ k \in DOMAIN keys'
       /\ keys'[k].color = keys[k].color
       /\ keys[k].collected => keys'[k].collected
  /\ \A d \in DOMAIN doors :
       /\ d \in DOMAIN doors'
       /\ doors'[d].color = doors[d].color
       /\ doors[d].isOpen => doors'[d].isOpen

\* C8: persistent state survives every scene transition and is monotonic:
\* no step removes a keyState or doorState entry or resets a true collected
\* or isOpen flag, and a frame that makes no onInteract call (whether or not
\* it loads a scene) leaves the held key and every existing entry unchanged.
C8_PersistentStateSurvives ==
  [][/\ PersistentMonotonic
     /\ NoInteraction =>
          /\ inventoryHeld' = inventoryHeld
          /\ globalHeld' = globalHeld
          /\ \A k \in DOMAIN keys : keys'[k] = keys[k]
          /\ \A d \in DOMAIN doors : doors'[d] = doors[d]]_vars

\* the last frame loaded a scene while a key was held and a key and a door
\* were marked in the persistent state, and they still are
C8_Witness ==
  /\ world.id >= 3
  /\ \E i \in 1..Len(frameLog) : frameLog[i].op = "winTriggered"
  /\ inventoryHeld # "none"
  /\ \E k \in DOMAIN keys : keys[k].collected
  /\ \E d \in DOMAIN doors : doors[d].isOpen

\* the frames the program can run next with interact pressed: the state
\* reached and the position the player has when the triggers are evaluated
PressedFrames ==
  IF playerEntity \notin DOMAIN physicsBodies THEN {}
  ELSE LET body == world.bodies[physicsBodies[playerEntity].b] IN
       UNION { { [after |-> tick(State, safeDeltaTime(el), TRUE, sp, out),
                  pos |-> out.pos] :
                   sp \in BOOLEAN,
                   out \in Outcomes(body, StepsOf(physicsAccumulator,
                                                  safeDeltaTime(el))) } :
               el \in frameTimes }

\* the interactables of a kind that have a transform within their trigger
\* radius of a position
InReach(kind, pos) ==
  {e \in (DOMAIN interactables) \cap (DOMAIN transforms) :
     /\ interactables[e].kind = kind
     /\ InRange(pos, transforms[e].pos, interactables[e].triggerRadius)}

\* pressing interact within the trigger radius of an uncollected key marks
\* it collected and removes its renderable and interactable entries in that
\* frame, and the key picked up last is the one held
C9_PressCollects ==
  \A f \in PressedFrames :
    LET reach == InReach("key", f.pos) IN
    /\ \A e \in reach :
         /\ f.after.keys[interactables[e].id].collected
         /\ e \notin f.after.renderables
         /\ e \notin DOMAIN f.after.interactables
    /\ reach # {} =>
         LET last == CHOOSE e \in reach : \A x \in reach : x <= e
         IN /\ f.after.inventoryHeld = interactables[last].color
            /\ f.after.globalHeld = interactables[last].color

\* C9: pressing interact within the trigger radius of an uncollected key
\* sets keyState[id].collected, sets the held key to the key's colour and
\* removes the key entity's renderable and interactable entries in the same
\* frame; an onInteract call is made on a key only while the key is not yet
\* collected, so no key is collected a second time.
C9_KeyPickupOnce ==
  /\ []C9_PressCollects
  /\ [][\A i \in KeyCalls :
          LET e == frameLog'[i].e
              k == origin'[e].id
          IN /\ k \in DOMAIN keys /\ ~keys[k].collected
             /\ keys'[k].collected
             /\ e \notin renderables'
             /\ e \notin DOMAIN interactables'
             /\ \A j \in KeyCalls : origin'[frameLog'[j].e].id = k => j = i]_vars

\* a key was picked up in the last frame: it is collected, held, and its
\* entity has a transform but no renderable and no interactable entry
C9_Witness ==
  \E i \in 1..Len(frameLog) :
    /\ frameLog[i].op = "onInteract"
    /\ origin[frameLog[i].e].kind = "key"
    /\ keys[origin[frameLog[i].e].id].collected
    /\ inventoryHeld = keys[origin[frameLog[i].e].id].color
    /\ frameLog[i].e \in DOMAIN transforms
    /\ frameLog[i].e \notin renderables
    /\ frameLog[i].e \notin DOMAIN interactables

\* pressing interact within the trigger radius of a closed door while the
\* key held when the door is reached has its colour opens the door and
\* removes its body and its entries in that frame
C10_PressOpens ==
  \A f \in PressedFrames :
    \A e \in InReach("door", f.pos) :
      f.after.inventoryHeld = interactables[e].color =>
        /\ f.after.doors[interactables[e].id].isOpen
        /\ e \notin f.after.renderables
        /\ e \notin DOMAIN f.after.physicsBodies
        /\ e \notin DOMAIN f.after.interactables
        /\ e \notin DOMAIN f.after.bodies

\* C10: with a key of colour c held, pressing interact within the trigger
\* radius of a closed door of colour c sets doorState[id].isOpen, removes
\* the door's body from the physics world and removes the door entity's
\* renderable, physicsBodies and interactables entries in the same
\* operation, and no later build creates an entity for that door.
C10_MatchingKeyOpensDoor ==
  /\ []C10_PressOpens
  /\ [][/\ \A i \in DoorCalls :
             LET e == frameLog'[i].e
                 d == origin'[e].id
             IN frameLog'[i].held = doors'[d].color =>
                  /\ doors'[d].isOpen
                  /\ e \notin renderables'
                  /\ e \notin DOMAIN physicsBodies'
                  /\ e \notin DOMAIN interactables'
                  /\ e \notin DOMAIN world'.bodies
                  /\ frameLog'[i + 1].msg = Msg("doorOpen", doors'[d].color)
        /\ \A d \in DOMAIN doors : doors[d].isOpen =>
             \A e \in Created : origin'[e] # Tag("door", d, world'.id)]_vars

\* a door was opened in the last frame with the key picked up before: the
\* door is open and its entity has no renderable, body or interactable entry
C10_Witness ==
  \E i \in 1..Len(frameLog) :
    /\ frameLog[i].op = "onInteract"
    /\ origin[frameLog[i].e].kind = "door"
    /\ frameLog[i].held = doors[origin[frameLog[i].e].id].color
    /\ \E k \in DOMAIN keys : keys[k].collected /\ keys[k].color = frameLog[i].held
    /\ doors[origin[frameLog[i].e].id].isOpen
    /\ frameLog[i].e \notin renderables
    /\ frameLog[i].e \notin DOMAIN physicsBodies
    /\ frameLog[i].e \notin DOMAIN world.bodies
    /\ frameLog[i].e \notin DOMAIN interactables

\* the win conditions that are not completed and have the position the
\* player is given by this frame's sync within their trigger radius
WinsInRange ==
  {e \in (DOMAIN winConditions) \cap (DOMAIN transforms) :
     /\ ~winConditions[e].completed
     /\ InRange(playerPos', transforms[e].pos, winConditions[e].triggerRadius)}

\* the frame advanced the scene index or signalled victory
Advanced == currentSceneIndex' # currentSceneIndex \/ victories' # victories

\* C11: a frame advances the scene index (or signals victory) only if every
\* collectible of the scene the frame starts in is collected and the player
\* is within the trigger radius of its win condition; and a frame that
\* starts with all collectibles collected and brings the player within the
\* radius does advance.
C11_WinNeedsAllCollectedInRange ==
  [][Advanced <=>
       /\ \A c \in DOMAIN collectibles : collectibles[c].isCollected
       /\ WinsInRange # {}]_vars

\* the last frame completed a scene that has collectibles: its win
\* condition triggered and the scene index is past that scene
C11_Witness ==
  \E i \in 1..Len(frameLog) :
    /\ frameLog[i].op = "winTriggered"
    /\ currentSceneIndex >= 1
    /\ \E c \in DOMAIN origin :
         /\ origin[c].kind = "collectible"
         /\ origin[c].inst = origin[frameLog[i].e].inst

\* the original bound of C12: no tick makes more than 6 steps
C12_AtMostSixSteps == stepsInFrame <= 6

\* C12 (amended): the Engine passes the tick min(deltaTime, 100 ms), so a
\* frame makes a bounded number of physics steps whatever the elapsed
\* time: at most 7 (6 from the clamped delta and one more when the
\* remainder carried in the accumulator is within rounding of a step), and
\* a 500 ms stall does not make 30 steps.
C12_ClampBoundsSteps ==
  lastEvent = "tick" =>
    /\ lastSafeDelta \in {lastDelta, F64(6, 2)}
    /\ lastSafeDelta.k < 6 \/ (lastSafeDelta.k = 6 /\ lastSafeDelta.r <= 2)
    /\ lastDelta.k < 6 => lastSafeDelta = lastDelta
    /\ stepsInFrame <= 7

\* a tick after a stall of 500 ms was given 100 ms and made 7 steps
C12_Witness ==
  /\ lastEvent = "tick"
  /\ lastDelta = F64(30, 2)
  /\ lastSafeDelta = F64(6, 2)
  /\ stepsInFrame = 7

\* the ids of a sequence of key or door descriptors are distinct
UniqueIds(descs) ==
  \A i, j \in 1..Len(descs) : descs[i].id = descs[j].id => i = j

\* C13: the simulation loop never runs on a registry built from descriptors
\* with a duplicate id: whenever a frame can run, the key ids and the door
\* ids of the scene that is loaded are distinct, no two entities were built
\* for one id, and no descriptor was merged into a persistent entry of
\* another colour.
C13_DuplicateIdsFailFast ==
  running =>
    /\ UniqueIds(CurrentConfig.keys)
    /\ UniqueIds(CurrentConfig.doors)
    /\ \A e1, e2 \in DOMAIN interactables :
         origin[e1] = origin[e2] => e1 = e2
    /\ \A i \in 1..Len(CurrentConfig.keys) :
         keys[CurrentConfig.keys[i].id].color = CurrentConfig.keys[i].color

\* C14: after stop() no tick is processed until start() is called again:
\* a step taken while the Engine is not running (a frame callback that was
\* requested before the stop included) calls no tick, so it makes no
\* physics step and leaves the accumulator as it is; and a step that calls
\* the tick is taken by a running Engine.
C14_NoTickAfterStop ==
  [][/\ ~running =>
          /\ lastEvent' # "tick"
          /\ accumulator64' = accumulator64
          /\ stepsInFrame' = stepsInFrame
          /\ lastSafeDelta' = lastSafeDelta
     /\ lastEvent' = "tick" => running /\ running']_vars

\* the Engine ticked, was stopped with a frame callback requested, and the
\* callback has run and returned without a tick
C14_Witness ==
  /\ ~running
  /\ lastEvent = "returned"
  /\ pendingFrames = 0
  /\ stepsInFrame > 0

\* C15: createEntity never returns an id it has returned before, scene
\* transitions included: the ids issued so far are exactly those below the
\* counter, the counter never decreases, and the ids a step issues are the
\* ones from the old counter up to the new one, all new.
C15_EntityIdsNeverReused ==
  /\ [](DOMAIN origin = 1..(nextEntity - 1))
  /\ [][/\ nextEntity' >= nextEntity
        /\ Created = nextEntity..(nextEntity' - 1)]_vars

\* a second scene has been built and every entity of it has an id above
\* every id of the scene before, although the tables were cleared
C15_Witness ==
  /\ world.id >= 3
  /\ \E e \in DOMAIN origin : origin[e].inst = world.id
  /\ \A e1, e2 \in DOMAIN origin :
       origin[e1].inst < origin[e2].inst => e1 < e2
  /\ \A e \in DOMAIN transforms : origin[e].inst = world.id

\* the collectibles the last step picked up
PickedUp ==
  {e \in (DOMAIN collectibles) \cap (DOMAIN collectibles') :
     ~collectibles[e].isCollected /\ collectibles'[e].isCollected}

\* C16: collectible pickup is monotonic and scene-local: while the scene
\* instance stays, no collectible is removed, a collected flag that is true
\* stays true, a flag becomes true only for a collectible the player is
\* within the trigger radius of, and the radius is kept; and a frame that
\* picks collectibles up without an onInteract call leaves the held key,
\* keyState and doorState unchanged.
C16_PickupMonotonicAndLocal ==
  [][/\ world'.id = world.id =>
          /\ DOMAIN collectibles' = DOMAIN collectibles
          /\ \A e \in DOMAIN collectibles :
               /\ collectibles[e].isCollected => collectibles'[e].isCollected
               /\ collectibles'[e].triggerRadius = collectibles[e].triggerRadius
          /\ \A e \in PickedUp :
               InRange(playerPos', transforms'[e].pos,
                       collectibles[e].triggerRadius)
     /\ PickedUp # {} /\ NoInteraction =>
          /\ keys' = keys
          /\ doors' = doors
          /\ inventoryHeld' = inventoryHeld
          /\ globalHeld' = globalHeld]_vars

\* a collectible was picked up, the player has left its trigger radius and
\* the flag is still true, while the key of the scene is still not
\* collected and nothing is held
C16_Witness ==
  /\ \E e \in DOMAIN collectibles :
       /\ collectibles[e].isCollected
       /\ ~InRange(playerPos, transforms[e].pos, collectibles[e].triggerRadius)
  /\ \E k \in DOMAIN keys : ~keys[k].collected
  /\ inventoryHeld = "none"
  /\ globalHeld = "none"

\* the frames the program can run next: the input of the jump key, the
\* number of physics steps, what the engine makes of the player's body, and
\* the state the tick ends in
NextFrames ==
  IF playerEntity \notin DOMAIN physicsBodies THEN {}
  ELSE LET body == world.bodies[physicsBodies[playerEntity].b] IN
       UNION { { [pressedSpace |-> sp,
                  steps |-> StepsOf(physicsAccumulator, safeDeltaTime(el)),
                  out |-> out,
                  after |-> tick(State, safeDeltaTime(el), pe, sp, out)] :
                   sp \in BOOLEAN, pe \in BOOLEAN,
                   out \in Outcomes(body, StepsOf(physicsAccumulator,
                                                  safeDeltaTime(el))) } :
               el \in frameTimes }

\* C17: in every frame the vertical velocity is set to the jump speed if
\* and only if jump is pressed in that frame and playerGrounded is true: a
\* press made while not grounded writes nothing, and a frame without a
\* press never jumps, whatever was pressed in the frames before.
C17_JumpOnlyWhenPressedAndGrounded ==
  \A f \in NextFrames :
    f.after.jumped <=> (f.pressedSpace /\ playerGrounded)

\* jump was pressed while the player was grounded: the body that rests on
\* a surface has the jump speed (no physics step has run since the write)
C17_Witness ==
  /\ playerEntity \in DOMAIN physicsBodies
  /\ world.bodies[physicsBodies[playerEntity].b].velY = jumpSpeed
  /\ world.bodies[physicsBodies[playerEntity].b].onSurface
  /\ ~playerGrounded

\* the doors of a colour that are open, the keys of a colour that are
\* collected
OpenDoors(c) == {d \in DOMAIN doors : doors[d].color = c /\ doors[d].isOpen}

CollectedKeys(c) == {k \in DOMAIN keys : keys[k].color = c /\ keys[k].collected}

\* C18: at most one door is opened per colour-key match: the open doors of
\* a colour are never more than the keys of that colour picked up, and one
\* frame (one interact press) opens at most one door.
C18_OneDoorPerKey ==
  /\ [](\A c \in {"red", "blue"} :
          Cardinality(OpenDoors(c)) <= Cardinality(CollectedKeys(c)))
  /\ [][Cardinality({d \in DOMAIN doors' :
                       /\ doors'[d].isOpen
                       /\ d \in DOMAIN doors => ~doors[d].isOpen}) <= 1]_vars

\* the scene index stays within the scene list and victory is signalled
\* at most once, exactly when the index has passed the last scene
C19_IndexAndVictoryBounded ==
  /\ currentSceneIndex <= Len(scenes)
  /\ victories <= 1
  /\ victories = 1 <=> currentSceneIndex = Len(scenes)

\* C19: when the win condition of the last scene triggers, victory is
\* signalled and no scene is loaded (no world is constructed after the one
\* of the last scene), while a trigger in an earlier scene loads the next
\* one; over a whole run victory is signalled at most once and
\* currentSceneIndex never exceeds the number of scenes.
C19_VictoryOnceAfterLastScene ==
  /\ []C19_IndexAndVictoryBounded
  /\ [][\A i \in 1..Len(frameLog') :
          frameLog'[i].op = "winTriggered" =>
            LET inst == origin'[frameLog'[i].e].inst
            IN IF inst = Len(scenes) + 1
               THEN /\ victories' = victories + 1
                    /\ currentSceneIndex' = Len(scenes)
                    /\ world'.id = inst
                    /\ worldCount' = inst
               ELSE /\ world'.id > inst
                    /\ currentSceneIndex' > inst - 2]_vars

\* the win condition of the last scene triggered in the last frame: victory
\* is signalled, the index is the number of scenes and the world is still
\* the one of the last scene
C19_Witness ==
  /\ \E i \in 1..Len(frameLog) :
       /\ frameLog[i].op = "winTriggered"
       /\ origin[frameLog[i].e].inst = Len(scenes) + 1
       /\ winConditions[frameLog[i].e].completed
  /\ victories = 1
  /\ currentSceneIndex = Len(scenes)
  /\ world.id = Len(scenes) + 1
  /\ worldCount = Len(scenes) + 1

\* a registry r holds, for the descriptor config, exactly one win condition,
\* not completed and at winconPos, and one uncollected collectible per
\* listed position, in the order of the list
FreshSceneLocals(r, config) ==
  LET wins  == DOMAIN r.winConditions
      colls == InOrder(DOMAIN r.collectibles)
  IN /\ Cardinality(wins) = 1
     /\ \A e \in wins :
          /\ ~r.winConditions[e].completed
          /\ e \in DOMAIN r.transforms
          /\ r.transforms[e].pos = config.winconPos
     /\ Len(colls) = Len(config.collectibles)
     /\ \A i \in 1..Len(colls) :
          /\ ~r.collectibles[colls[i]].isCollected
          /\ colls[i] \in DOMAIN r.transforms
          /\ r.transforms[colls[i]].pos = config.collectibles[i]

\* from every state the program reaches, building any scene of the list
\* gives fresh scene-local objects
C20_BuildGivesFreshLocals ==
  \A n \in 1..Len(scenes) :
    FreshSceneLocals(loadScene(State, scenes, n - 1, worldCount + 1), scenes[n])

\* C20: every buildScene creates exactly one win-condition entity with
\* completed = false and one uncollected collectible per descriptor
\* position, whatever was collected or completed in earlier scene instances
\* and whatever the persistent state holds: this holds of a build from any
\* reachable state, and after a frame that loaded a scene the tables hold
\* exactly these objects (the win condition completed only if the same
\* frame triggered it).
C20_SceneLocalsAlwaysRebuilt ==
  /\ []C20_BuildGivesFreshLocals
  /\ [][world'.id # world.id =>
          LET config == scenes'[world'.id - 1]
              triggered == {frameLog'[i].e : i \in
                              {j \in 1..Len(frameLog') :
                                 frameLog'[j].op = "winTriggered"}}
              r == [winConditions |->
                      [e \in DOMAIN winConditions' |->
                         IF e \in triggered
                         THEN [winConditions'[e] EXCEPT !.completed = FALSE]
                         ELSE winConditions'[e]],
                    collectibles |-> collectibles',
                    transforms |-> transforms']
          IN /\ FreshSceneLocals(r, config)
             /\ \A e \in DOMAIN winConditions' :
                  winConditions'[e].completed => e \in triggered]_vars

\* a second scene has been built while a key was collected and held and
\* the scene before was completed with its collectibles collected: its
\* collectible is there and not collected, its win condition not completed
C20_Witness ==
  /\ world.id >= 3
  /\ \E k \in DOMAIN keys : keys[k].collected
  /\ inventoryHeld # "none"
  /\ DOMAIN collectibles # {}
  /\ \A e \in DOMAIN collectibles : ~collectibles[e].isCollected
  /\ Cardinality(DOMAIN winConditions) = 1
  /\ \A e \in DOMAIN winConditions : ~winConditions[e].completed

\* C21: a scene transition resets the accumulator to 0 and replaces the
\* world by one constructed in that frame, before the next frame: every
\* world.step() of a frame is made on the world the frame starts with, which
\* is always the one constructed last (so a replaced world is never stepped
\* again), and after a frame that loads a scene the accumulator is 0 and
\* the world is new and holds exactly the bodies of the scene as they were
\* built, at rest at their build positions (no step was made on it).
C21_TransitionResetsPhysics ==
  /\ world.id = worldCount
  /\ \A f \in NextFrames :
       LET a == f.after IN
       /\ \A i \in 1..Len(a.stepped) : a.stepped[i] = world.id
       /\ a.worldId # world.id =>
            /\ a.physicsAccumulator = 0
            /\ a.worldId > worldCount
            /\ a.worldId = a.worldCount
            /\ DOMAIN a.bodies =
                 {a.physicsBodies[e].b : e \in DOMAIN a.physicsBodies}
            /\ \A e \in DOMAIN a.physicsBodies :
                 /\ a.physicsBodies[e].w = a.worldId
                 /\ a.bodies[a.physicsBodies[e].b].pos = a.transforms[e].pos
                 /\ a.bodies[a.physicsBodies[e].b].velY = 0
            /\ a.bodies[a.physicsBodies[a.playerEntity].b].pos
                 = a.scenes[a.worldId - 1].playerStart

\* the last frame made a transition from a position other than the next
\* scene's start: the accumulator is 0, the player's body in the new world
\* is at playerStart, and playerPos is still the position in the old world
C21_Witness ==
  /\ \E i \in 1..Len(frameLog) :
       /\ frameLog[i].op = "winTriggered"
       /\ world.id = origin[frameLog[i].e].inst + 1
  /\ physicsAccumulator = 0
  /\ playerEntity \in DOMAIN physicsBodies
  /\ world.bodies[physicsBodies[playerEntity].b].pos = CurrentConfig.playerStart
  /\ playerPos # CurrentConfig.playerStart

\* the entries of the frame log that are showUIMessage calls; those that
\* request the prompt; those that show the result of an interaction
Shown == {i \in 1..Len(frameLog') : frameLog'[i].op = "showUIMessage"}

Prompts == {i \in Shown : frameLog'[i].msg = Msg("interact", "none")}

ResultsShown == Shown \ Prompts

\* C22: a message is showing exactly while uiTimer is positive; the prompt
\* is requested only if no message is showing, neither one from an earlier
\* frame nor one shown earlier in the same frame; every onInteract call
\* shows a result; and when a frame shows results, the last of them is the
\* message showing after the frame with nearly its whole duration left,
\* whatever was showing before, the prompt of the same frame included.
C22_PromptOnlyWhenIdleResultsOverride ==
  /\ [](uiMessage = NoMessage <=> uiTimer <= 0)
  /\ [][/\ \A i \in Prompts :
             /\ uiMessage = NoMessage
             /\ \A j \in Shown : j >= i
        /\ \A i \in 1..Len(frameLog') :
             frameLog'[i].op = "onInteract" =>
               /\ i + 1 \in ResultsShown
               /\ frameLog'[i + 1].msg.text \in
                    {"keyPickup", "doorOpen", "doorNeedKey"}
        /\ ResultsShown # {} =>
             LET last == CHOOSE i \in ResultsShown :
                           \A j \in ResultsShown : j <= i
             IN /\ uiMessage' = frameLog'[last].msg
                /\ uiTimer' > resultDuration - maxDeltaTime - 1
        /\ (uiMessage # NoMessage /\ ResultsShown = {}) =>
             /\ uiMessage' \in {uiMessage, NoMessage}
             /\ uiTimer' < uiTimer]_vars

\* the last frame requested the prompt and then showed the result of an
\* interaction: the result is the message showing
C22_Witness ==
  /\ \E i, j \in 1..Len(frameLog) :
       /\ i < j
       /\ frameLog[i].op = "showUIMessage"
       /\ frameLog[i].msg = Msg("interact", "none")
       /\ frameLog[j].op = "showUIMessage"
       /\ frameLog[j].msg.text = "doorNeedKey"
  /\ uiMessage.text = "doorNeedKey"
  /\ uiTimer > promptDuration

\* C23: in every frame, when the pickup pass starts every entity with a
\* body and a transform has the position the physics engine gives its body
\* after the frame's last step (for the player: the outcome of the steps,
\* or the body's position as it was if no step ran), and playerPos is that
\* position of the player; the triggers read nothing else: playerPos is not
\* written again in the frame, and every collectible picked up, every
\* onInteract call and every win trigger of the scene is within its radius
\* of that position.
C23_SyncBeforeTriggers ==
  \A f \in NextFrames :
    LET a == f.after
        t == a.atTriggers
        h == physicsBodies[playerEntity].b
    IN /\ \A e \in (DOMAIN t.physicsBodies) \cap (DOMAIN t.transforms) :
            t.transforms[e].pos = t.bodies[t.physicsBodies[e].b].pos
       /\ t.bodies[h].pos = IF f.steps >= 1 THEN f.out.pos
                            ELSE world.bodies[h].pos
       /\ t.playerPos = t.bodies[h].pos
       /\ a.playerPos = t.playerPos
       /\ \A e \in DOMAIN collectibles :
            (/\ ~collectibles[e].isCollected
             /\ e \in DOMAIN a.collectibles
             /\ a.collectibles[e].isCollected)
            => InRange(t.playerPos, t.transforms[e].pos,
                       collectibles[e].triggerRadius)
       /\ \A i \in 1..Len(a.frameLog) :
            LET e == a.frameLog[i].e IN
            /\ a.frameLog[i].op = "onInteract" =>
                 InRange(t.playerPos, t.transforms[e].pos,
                         interactables[e].triggerRadius)
            /\ (a.frameLog[i].op = "winTriggered" /\ e \in DOMAIN winConditions)
               => InRange(t.playerPos, t.transforms[e].pos,
                          winConditions[e].triggerRadius)

\* the player has moved away from the start of the scene, the transform and
\* playerPos have the position of the body, and a collectible within its
\* radius of that position is collected
C23_Witness ==
  /\ playerEntity \in DOMAIN physicsBodies
  /\ playerPos # CurrentConfig.playerStart
  /\ world.bodies[physicsBodies[playerEntity].b].pos = playerPos
  /\ transforms[playerEntity].pos = playerPos
  /\ \E e \in DOMAIN collectibles :
       /\ collectibles[e].isCollected
       /\ InRange(playerPos, transforms[e].pos, collectibles[e].triggerRadius)

\* C24: a frame that starts with no physics body for the player does no
\* simulation work: whatever the inputs, the tick writes no velocity and
\* makes no physics step, and the frame leaves the world, the accumulator,
\* the collectible flags, the persistent state, the scene index and every
\* other table as they are; the Engine stays running with its frame
\* callback requested, so the next frame is attempted.
C24_NoBodyNoSimulation ==
  /\ [](playerEntity \notin DOMAIN physicsBodies =>
         \A el \in frameTimes, pe \in BOOLEAN, sp \in BOOLEAN :
           LET a == tick(State, safeDeltaTime(el), pe, sp, NoOutcome)
           IN /\ ~a.jumped
              /\ a.stepped = <<>>
              /\ a.bodies = world.bodies)
  /\ [][playerEntity \notin DOMAIN physicsBodies =>
          /\ world' = world
          /\ physicsAccumulator' = physicsAccumulator
          /\ collectibles' = collectibles
          /\ keys' = keys
          /\ doors' = doors
          /\ globalHeld' = globalHeld
          /\ inventoryHeld' = inventoryHeld
          /\ currentSceneIndex' = currentSceneIndex
          /\ victories' = victories
          /\ UNCHANGED <<transforms, physicsBodies, interactables,
                         winConditions, playerPos, playerGrounded,
                         uiMessage, uiTimer, nextEntity, worldCount>>
          /\ frameLog' = <<>>
          /\ running' /\ pendingFrames' >= 1]_vars

\* a frame has run without a body for the player, with time left in the
\* accumulator, a message showing and the key of the scene within reach
\* and not collected
C24_Witness ==
  /\ playerEntity \notin DOMAIN physicsBodies
  /\ frameLog = <<>>
  /\ physicsAccumulator > 0
  /\ uiMessage # NoMessage
  /\ \E e \in DOMAIN interactables :
       /\ e \in DOMAIN transforms
       /\ interactables[e].kind = "key"
       /\ InRange(playerPos, transforms[e].pos, interactables[e].triggerRadius)

\* C25: a key-down edge is reported by wasKeyPressed in exactly one frame:
\* between frames wasKeyPressed is true exactly of the keys with an edge
\* since the last frame callback, a frame reports exactly those keys and
\* ends with keysPressed empty, so a frame that follows a frame without an
\* event in between reports nothing; a keydown for a key whose last event
\* is a keydown (auto-repeat) leaves keysPressed as it is, and a keydown
\* after a keyup is an edge again.
C25_EdgeReportedInOneFrame ==
  /\ [](keysPressed = inputLog.edges)
  /\ [][/\ inputLog'.last.type = "frame" =>
             /\ inputLog'.reported = inputLog.edges
             /\ keysPressed' = {}
             /\ inputLog.last.type = "frame" => inputLog'.reported = {}
        /\ inputLog'.last.type = "keydown" =>
             IF inputLog'.last.key \in inputLog.held
             THEN keysPressed' = keysPressed
             ELSE keysPressed' = keysPressed \cup {inputLog'.last.key}]_vars

\* Space was reported in the last frame and is still held; a further
\* keydown event for it has arrived and has made no edge
C25_Witness ==
  /\ inputLog.last = InputEvent("keydown", "Space", TRUE)
  /\ "Space" \in inputLog.reported
  /\ "Space" \in keysDown
  /\ "Space" \notin keysPressed

\* C26: while an accepted changeScene call is in progress (from its start
\* until the value of onEnter has settled, or until the call is given up
\* by a throw), update() and render() call no scene method, and a further
\* changeScene call returns without calling onExit or onEnter and leaves
\* current, pending and the call in progress as they are.
C26_NoSceneMethodWhileSwitching ==
  [][sceneLog.switch.status = "running" =>
       /\ sceneLog'.op \in {"update", "render"} => sceneLog'.call = NoCall
       /\ sceneLog'.op = "changeScene" =>
            /\ ~sceneLog'.accepted
            /\ sceneLog'.call = NoCall
            /\ current' = current
            /\ pending' = pending
            /\ isSwitching'
            /\ switchPc' = switchPc
            /\ sceneLog'.switch = sceneLog.switch
            /\ sceneLog'.life = sceneLog.life]_vars

\* while the value of onEnter of the new scene has not settled, a second
\* changeScene call has returned and the new scene is still current
C26_Witness ==
  /\ sceneLog.switch.status = "running"
  /\ switchPc = "awaiting"
  /\ sceneLog.op = "changeScene"
  /\ ~sceneLog.accepted
  /\ sceneLog.switch.prev # "null"
  /\ current = sceneLog.switch.next

\* C27: an accepted changeScene(next) calls onExit on the scene that was
\* current, once, and calls next.onEnter only after it, once; when the
\* call is fulfilled getCurrentScene() is next; and update() and render()
\* reach only the current scene and only while it is entered, never a
\* scene whose onExit was called and that was not entered again.
C27_ExitOnceBeforeEnter ==
  [][/\ (sceneLog'.op = "changeScene" /\ sceneLog'.accepted) =>
          /\ sceneLog'.switch.next \in SceneNames
          /\ sceneLog'.switch.prev = current
          /\ sceneLog'.call = IF current # "null"
                              THEN SceneCall(current, "onExit")
                              ELSE SceneCall(sceneLog'.switch.next, "onEnter")
     /\ sceneLog'.call.method = "onExit" =>
          /\ sceneLog'.op = "changeScene"
          /\ sceneLog'.call.scene = sceneLog'.switch.prev
     /\ sceneLog'.call.method = "onEnter" =>
          /\ sceneLog'.call.scene = sceneLog'.switch.next
          /\ sceneLog'.switch.enters = 1
          /\ sceneLog'.switch.status = "running"
          /\ IF sceneLog'.switch.prev = "null"
             THEN sceneLog'.op = "changeScene"
             ELSE /\ sceneLog'.op = "onExit returned"
                  /\ sceneLog.switch.exits = 1
                  /\ sceneLog.switch.enters = 0
     /\ (sceneLog.switch.status = "running"
         /\ sceneLog'.switch.status = "fulfilled") =>
          /\ getCurrentScene' = sceneLog.switch.next
          /\ sceneLog.switch.enters = 1
          /\ sceneLog.switch.exits =
               IF sceneLog.switch.prev = "null" THEN 0 ELSE 1
          /\ ~isSwitching'
     /\ sceneLog'.call.method \in {"update", "render"} =>
          /\ sceneLog'.call.scene = current
          /\ sceneLog.life[current] = "entered"]_vars

\* a call that replaced one scene by another is fulfilled, the scene
\* replaced is exited, and update() has reached the new scene
C27_Witness ==
  /\ sceneLog.switch.status = "fulfilled"
  /\ sceneLog.switch.prev \notin {"null", sceneLog.switch.next}
  /\ sceneLog.life[sceneLog.switch.prev] = "exited"
  /\ getCurrentScene = sceneLog.switch.next
  /\ sceneLog.op = "update"
  /\ sceneLog.call = SceneCall(sceneLog.switch.next, "update")

\* the handlers registered for the event of the last call, by the on() and
\* off() calls made so far
RegisteredFor(event) ==
  {h \in HandlerNames : <<event, h>> \in busLog.registered}

\* the number of calls of a handler in the last emit
TimesCalled(h) ==
  Cardinality({i \in 1..Len(busLog'.called) : busLog'.called[i].handler = h})

WinsEvaluated ==
  {frameLog'[i].e : i \in {j \in 1..Len(frameLog') :
                             frameLog'[j].op \in {"winSkipped", "winTriggered",
                                                  "winOutOfRange"}}}

\* C29: a frame advances currentSceneIndex by at most one and evaluates
\* only win conditions that exist when it starts, not the one of a scene
\* that loadScene builds in the frame; and a win condition triggers only
\* if every collectible built with it is collected when the frame starts,
\* so no scene is completed without its own collectibles being collected.
C29_OneSceneAdvancePerFrame ==
  [][/\ currentSceneIndex' <= currentSceneIndex + 1
     /\ WinsEvaluated \subseteq DOMAIN winConditions
     /\ \A i \in 1..Len(frameLog') :
          frameLog'[i].op = "winTriggered" =>
            \A c \in DOMAIN origin' :
              (/\ origin'[c].kind = "collectible"
               /\ origin'[c].inst = origin'[frameLog'[i].e].inst)
              => /\ c \in DOMAIN collectibles
                 /\ collectibles[c].isCollected]_vars

\* C30: the win evaluation of a frame uses the collected flags as they are
\* before the frame's pickup pass: a frame that starts with a collectible
\* not collected triggers no win condition, completes none, loads no scene
\* and signals no victory, also when it picks up the last collectible with
\* the player within the win radius; the win condition can trigger in the
\* next frame at the earliest.
C30_WinUsesFlagsBeforePickup ==
  [][(\E c \in DOMAIN collectibles : ~collectibles[c].isCollected) =>
       /\ \A i \in 1..Len(frameLog') : frameLog'[i].op # "winTriggered"
       /\ winConditions' = winConditions
       /\ currentSceneIndex' = currentSceneIndex
       /\ victories' = victories
       /\ world'.id = world.id]_vars

\* the last collectible was picked up at the point of the win condition:
\* every collectible is collected and the player is within the win radius,
\* and the win condition is not completed and the scene is still the first
C30_Witness ==
  /\ currentSceneIndex = 0
  /\ DOMAIN collectibles # {}
  /\ \A c \in DOMAIN collectibles : collectibles[c].isCollected
  /\ \E c \in DOMAIN collectibles :
       InRange(playerPos, transforms[c].pos, collectibles[c].triggerRadius)
  /\ \E e \in DOMAIN winConditions :
       /\ ~winConditions[e].completed
       /\ InRange(playerPos, transforms[e].pos, winConditions[e].triggerRadius)


----------------------------------------------------------------------------
\* C31: every changeScene call eventually finishes with isSwitching =
\* false, so that update() and render() are forwarded again and a later
\* changeScene is accepted, also when onExit throws or onEnter throws or
\* its promise rejects: whenever the manager is switching it later is not.
C31_SwitchEventuallyEnds == isSwitching ~> ~isSwitching

\* the same statement for finished calls: a manager on which no changeScene
\* call is running is not switching
C31_NoCallRunningNotSwitching == switchPc = "idle" => ~isSwitching

\* once the accepted call was rejected, isSwitching never becomes false
C31_RejectedStaysSwitching ==
  [][(switchPc = "idle" /\ isSwitching) => isSwitching']_vars

\* a call was rejected and left the manager switching, with update() skipped
C31_Stuck ==
  /\ switchPc = "idle"
  /\ isSwitching
  /\ sceneLog.switch.status = "rejected"
  /\ sceneLog.op = "update"
  /\ sceneLog.call = NoCall
  /\ current # "null"


----------------------------------------------------------------------------
\* a key the current scene lists, against its persistent entry: while it is
\* not collected the build into the current world made one entity for it,
\* which has its transform, renderable and interactable entry; once it is
\* collected no entity of the current build has a renderable or an
\* interactable entry for it
KeyProjected(kd) ==
  LET es == BuiltFor("key", kd.id) IN
  /\ kd.id \in DOMAIN keys
  /\ IF keys[kd.id].collected
     THEN \A e \in es : e \notin renderables /\ e \notin DOMAIN interactables
     ELSE \E e \in es :
            /\ es = {e}
            /\ e \in DOMAIN transforms
            /\ e \in renderables
            /\ e \in DOMAIN interactables
            /\ interactables[e].kind = "key"
            /\ interactables[e].id = kd.id

\* a door the current scene lists, against its persistent entry: while it
\* is closed the build into the current world made one entity for it, which
\* has a renderable and a physicsBodies entry whose body is in the current
\* world; once it is open no entity of the current build has a renderable,
\* a physicsBodies entry or a body in the world for it
DoorProjected(dd) ==
  LET es == BuiltFor("door", dd.id) IN
  /\ dd.id \in DOMAIN doors
  /\ IF doors[dd.id].isOpen
     THEN \A e \in es : /\ e \notin renderables
                        /\ e \notin DOMAIN physicsBodies
                        /\ e \notin DOMAIN world.bodies
     ELSE \E e \in es :
            /\ es = {e}
            /\ e \in renderables
            /\ e \in DOMAIN physicsBodies
            /\ physicsBodies[e].w = world.id
            /\ physicsBodies[e].b \in DOMAIN world.bodies

\* some entity made for the object, by any build, is in the table
HasEntry(table, kind, id) ==
  \E e \in table : origin[e].kind = kind /\ origin[e].id = id

\* C32: at every frame boundary the registry is a projection of the
\* persistent state for the current scene: a door the current scene lists
\* has a body in the current physics world and a renderable exactly while
\* its doorState is not open, and a key the current scene lists has a
\* renderable and an interactable entry exactly while its keyState is not
\* collected.
C32_RegistryProjectsPersistentState ==
  /\ \A kd \in Range(CurrentConfig.keys) :
       /\ KeyProjected(kd)
       /\ (HasEntry(renderables, "key", kd.id)
             /\ HasEntry(DOMAIN interactables, "key", kd.id))
            <=> ~keys[kd.id].collected
  /\ \A dd \in Range(CurrentConfig.doors) :
       /\ DoorProjected(dd)
       /\ (HasEntry(DOMAIN world.bodies, "door", dd.id)
             /\ HasEntry(renderables, "door", dd.id))
            <=> ~doors[dd.id].isOpen

\* the current scene lists a key that was collected and a door that was
\* opened in it, both built into the current world, and a key that is not
\* collected
C32_Witness ==
  /\ \E kd \in Range(CurrentConfig.keys) :
       keys[kd.id].collected /\ BuiltFor("key", kd.id) # {}
  /\ \E kd \in Range(CurrentConfig.keys) :
       ~keys[kd.id].collected /\ BuiltFor("key", kd.id) # {}
  /\ \E dd \in Range(CurrentConfig.doors) :
       doors[dd.id].isOpen /\ BuiltFor("door", dd.id) # {}


----------------------------------------------------------------------------
\* floor(sum / fixedTimeStep) for the exact sum k * S + r of the record,
\* where r is far smaller than S
ExactSteps == IF simulated.r >= 0 THEN simulated.k ELSE simulated.k - 1

\* the exact remainder sum - ExactSteps * fixedTimeStep, as k * S + r
ExactRemainder ==
  IF simulated.r >= 0 THEN F64(0, simulated.r) ELSE F64(1, simulated.r)

\* the largest rounding error of an addition or subtraction whose result is
\* near k * S: half the spacing of the doubles there (nothing at k <= 1,
\* where every unit of 2^-58 s is a double)
HalfUlp(k) == Ulp64(k, 0) \div 2

\* the most one frame can add to the distance between the accumulator and
\* the exact remainder, in units of 2^-58 s: the rounding of the addition,
\* whose result is below 8 * S after the clamp, and of the subtractions
\* whose results are near 6 * S down to 2 * S
DriftPerFrame ==
  HalfUlp(7) + HalfUlp(6) + HalfUlp(5) + HalfUlp(4) + HalfUlp(3) + HalfUlp(2)

\* C33 as stated: between scene transitions, after any sequence of frames
\* the number of physics steps executed is floor((d1 + ... + dn) /
\* fixedTimeStep) for the clamped deltas d1..dn and the accumulator is the
\* remainder.
C33_StepsAreFloorOfTime ==
  /\ simulated.steps = ExactSteps
  /\ accumulator64 = ExactRemainder

\* C33: between scene transitions no whole step of simulated time is lost
\* or duplicated: the accumulator stays in [0, fixedTimeStep), the steps
\* executed times fixedTimeStep plus the accumulator differ from the sum of
\* the clamped deltas by no more than the rounding of the double additions
\* and subtractions (DriftPerFrame units of 2^-58 s a frame), and the
\* number of steps is the floor of sum / fixedTimeStep or one more or less.
C33_TimeConservedUpToRounding ==
  /\ accumulator64.k \in {0, 1}
  /\ accumulator64.k = 0 => accumulator64.r >= 0
  /\ accumulator64.k = 1 => accumulator64.r < 0
  /\ simulated.steps + accumulator64.k = simulated.k
  /\ accumulator64.r - simulated.r <= DriftPerFrame * simulated.frames
  /\ simulated.r - accumulator64.r <= DriftPerFrame * simulated.frames
  /\ simulated.steps - ExactSteps \in {-1, 0, 1}

\* a recorded run of several frames that made more steps than the floor of
\* its time, with an accumulator that is not the remainder
C33_Witness ==
  /\ simulated.frames >= 2
  /\ lastEvent = "tick"
  /\ simulated.steps > ExactSteps
  /\ simulated.steps >= 6
  /\ accumulator64 # ExactRemainder

====
